---- MODULE Spec2Model ----
(***************************************************************************)
(* Model of the Tegra PMC power-domain state machine and of the Tegra114   *)
(* memory-controller hot-reset protocol (drivers/soc/tegra/pmc.c).         *)
(*                                                                         *)
(* Callers are threads that execute the driver's functions one register    *)
(* access, lock operation or external call at a time.  The hardware and    *)
(* the clock are separate actors.                                          *)
(***************************************************************************)
EXTENDS Integers, Sequences, FiniteSets, TLC

(***************************************************************************)
(* Bounds of the model.                                                    *)
(***************************************************************************)
\* poll budget of tegra_pmc_powergate_set in clock ticks (stands for 50 ms)
PgTimeoutTicks == 2
\* a clock's enable count is not raised above this
MaxClkCnt == 2
\* a regulator's enable count is not raised above this
MaxRegCnt == 2
\* changes of value the hot-reset status register may still make
MaxGlitch == 4
\* length up to which an initial run of ever-changing status reads is counted
MaxAlt == 4
\* failures of external subsystems injected per run
MaxFaults == 1
RailTimeoutTicks == 2

(***************************************************************************)
(* Program constants.                                                      *)
(***************************************************************************)
EINVAL == 22
ENOMEM == 12
ETIMEDOUT == 110
\* representative errno values handed back by the clock, reset and
\* regulator frameworks
ExtErr == [clk |-> -5, reset |-> -16, regulator |-> -19]

TEGRA_POWERGATE_CPU == 0
TEGRA_POWERGATE_3D == 1
TEGRA_POWERGATE_VENC == 2
TEGRA_POWERGATE_PCIE == 3
TEGRA_POWERGATE_VDEC == 4
TEGRA_POWERGATE_MPE == 6
TEGRA_POWERGATE_HEG == 7
TEGRA_POWERGATE_CPU1 == 9
TEGRA_POWERGATE_CPU2 == 10
TEGRA_POWERGATE_CPU3 == 11
TEGRA_POWERGATE_CPU0 == 14
TEGRA_POWERGATE_C0NC == 15
TEGRA_POWERGATE_DIS == 23
TEGRA_POWERGATE_IRAM == 24

\* number of reads tegra114_stable_hotreset_check compares with the first
StableReads == 5

\* struct tegra_pmc_soc of the four chip variants
tegra20_pmc_soc ==
  [name |-> "tegra20", num_powergates |-> 7,
   has_gpu_clamps |-> FALSE, is_legacy_powergate |-> TRUE]
tegra30_pmc_soc ==
  [name |-> "tegra30", num_powergates |-> 14,
   has_gpu_clamps |-> FALSE, is_legacy_powergate |-> TRUE]
tegra114_pmc_soc ==
  [name |-> "tegra114", num_powergates |-> 23,
   has_gpu_clamps |-> FALSE, is_legacy_powergate |-> FALSE]
tegra124_pmc_soc ==
  [name |-> "tegra124", num_powergates |-> 25,
   has_gpu_clamps |-> TRUE, is_legacy_powergate |-> FALSE]
tegra_pmc_match ==
  {tegra124_pmc_soc, tegra114_pmc_soc, tegra30_pmc_soc, tegra20_pmc_soc}

\* tegra114_mc_hotreset: swgroup -> bit of the control and status registers
\* (all groups share the registers 0x200 / 0x204); 0 - 1 is "no descriptor"
NoHotreset == 0 - 1
tegra114_mc_hotreset(sg) ==
  CASE sg = "ISP" -> 8
    [] sg = "VI" -> 17
    [] sg = "VDE" -> 16
    [] OTHER -> NoHotreset

(***************************************************************************)
(* struct tegra_powergate: the descriptors the device tree can supply.     *)
(* Clocks, resets and client groups are listed in registration order.      *)
(***************************************************************************)
Descr ==
  [venc |-> [id |-> TEGRA_POWERGATE_VENC, clk |-> <<"venc_c0", "venc_c1">>,
             reset |-> <<"venc_r0", "venc_r1">>, swgroup |-> <<"VI", "ISP">>,
             is_vdd |-> FALSE],
   pcie |-> [id |-> TEGRA_POWERGATE_PCIE, clk |-> <<"pcie_c0">>,
             reset |-> <<"pcie_r0">>, swgroup |-> <<>>,
             is_vdd |-> FALSE],
   vdec |-> [id |-> TEGRA_POWERGATE_VDEC,
             clk |-> <<"vdec_c0", "vdec_c1", "vdec_c2">>,
             reset |-> <<"vdec_r0">>, swgroup |-> <<>>,
             is_vdd |-> FALSE],
   mpe  |-> [id |-> TEGRA_POWERGATE_MPE, clk |-> <<"mpe_c0">>,
             reset |-> <<"mpe_r0">>, swgroup |-> <<"VDE">>,
             is_vdd |-> FALSE],
   dis  |-> [id |-> TEGRA_POWERGATE_DIS, clk |-> <<"dis_c0">>,
             reset |-> <<"dis_r0">>, swgroup |-> <<"VI">>,
             is_vdd |-> FALSE],
   heg  |-> [id |-> TEGRA_POWERGATE_HEG, clk |-> <<"heg_c0">>,
             reset |-> <<"heg_r0">>, swgroup |-> <<"PTC", "VDE">>,
             is_vdd |-> FALSE],
   cpu  |-> [id |-> TEGRA_POWERGATE_CPU, clk |-> <<"cpu_c0">>,
             reset |-> <<"cpu_r0">>, swgroup |-> <<>>,
             is_vdd |-> FALSE],
   cpu0 |-> [id |-> TEGRA_POWERGATE_CPU0, clk |-> <<"cpu0_c0">>,
             reset |-> <<"cpu0_r0">>, swgroup |-> <<>>,
             is_vdd |-> FALSE],
   cpu1 |-> [id |-> TEGRA_POWERGATE_CPU1, clk |-> <<"cpu1_c0">>,
             reset |-> <<"cpu1_r0">>, swgroup |-> <<>>,
             is_vdd |-> FALSE],
   cpu2 |-> [id |-> TEGRA_POWERGATE_CPU2, clk |-> <<"cpu2_c0">>,
             reset |-> <<"cpu2_r0">>, swgroup |-> <<>>,
             is_vdd |-> FALSE],
   cpu3 |-> [id |-> TEGRA_POWERGATE_CPU3, clk |-> <<"cpu3_c0">>,
             reset |-> <<"cpu3_r0">>, swgroup |-> <<>>,
             is_vdd |-> FALSE],
   c0nc |-> [id |-> TEGRA_POWERGATE_C0NC, clk |-> <<"c0nc_c0">>,
             reset |-> <<"c0nc_r0">>, swgroup |-> <<>>,
             is_vdd |-> FALSE],
   iram |-> [id |-> TEGRA_POWERGATE_IRAM, clk |-> <<"iram_c0">>,
             reset |-> <<"iram_r0">>, swgroup |-> <<>>,
             is_vdd |-> FALSE],
   gpu  |-> [id |-> TEGRA_POWERGATE_3D, clk |-> <<"gpu_c0">>,
             reset |-> <<"gpu_r0">>, swgroup |-> <<>>,
             is_vdd |-> TRUE]]

DomNames == DOMAIN Descr
Range(s) == {s[k] : k \in DOMAIN s}
Clocks == UNION {Range(Descr[d].clk) : d \in DomNames}
Resets == UNION {Range(Descr[d].reset) : d \in DomNames}
HotBits == {8, 17}
Threads == {1, 2}
NoOwner == 0
NoCmd == 0 - 1

VARIABLES
  soc,        \* pmc->soc, the chip variant
  doms,       \* pmc->powergate_list: names of the registered domains
  genpd,      \* per registered domain, the "off" flag given to pm_genpd_init
  vdd,        \* powergate->vdd per domain: "null", "err" or "ok"
  regCnt,     \* enable count of each domain's regulator
  status,     \* PWRGATE_STATUS: ids whose bit is set
  toggle,     \* PWRGATE_TOGGLE: id of the command in progress, or NoCmd
  pmcLock,    \* pmc->powergates_lock: owner or NoOwner
  mcLock,     \* mc->lock: owner or NoOwner
  mcCtrl,     \* hot-reset control register: bits set
  mcStat,     \* hot-reset status register: bits set
  glitch,     \* transient status values the hardware may still show
  clkCnt,     \* enable count per clock
  rstLine,    \* per reset line: asserted?
  callers,    \* threads that issue calls
  node,       \* the power-domain node of the device tree, or "none"
  faults,     \* failures the clock, reset and regulator frameworks may
              \* still report
  pc,         \* per thread: position in the code
  stk,        \* per thread: return positions of the calls in progress
  loc,        \* per thread: locals of the calls in progress
  log,        \* per thread: side effects of the current top-level call
  prev,       \* summary of the previous top-level call
  disturbed,  \* hardware changed PWRGATE_STATUS since a caller last read it
  rail,       \* the I/O rail registers (request and status words of both
              \* banks, DPD_SAMPLE, SEL_DPD_TIM) and the rate of pclk
  pd          \* the power domains: nodes = the "nvidia,power-domains" nodes
              \* of the device tree in order, list = pmc->powergate_list in
              \* order, named = domains whose base.name is set, links = the
              \* (parent, sub-domain) pairs made, provider = the genpd
              \* provider has been added

cfgVars == <<soc, doms, callers, node, pd>>
regVars == <<genpd, vdd>>
pmcHw == <<status, toggle, rail>>
mcHw == <<mcCtrl, mcStat, glitch>>
extHw == <<regCnt, clkCnt, rstLine>>
locks == <<pmcLock, mcLock>>
thr == <<pc, stk, loc, log>>
hist == <<prev, disturbed>>
vars == <<soc, doms, genpd, vdd, regCnt, status, toggle, pmcLock, mcLock,
          mcCtrl, mcStat, glitch, clkCnt, rstLine, callers, node, faults,
          pc, stk, loc, log, prev, disturbed, rail, pd>>

BIT(id) == {id}
\* one step of a call as recorded in log: what was done, to what, and the
\* result code (0: done; negative: the step failed and did nothing)
Ev(e, a, rc) == [ev |-> e, a |-> a, rc |-> rc]

\* locals of a thread that is in no call (cnt0: the enable counts of the
\* clocks when the top-level call began; np: the position of the loops of
\* tegra_powergate_init in the device tree and in the list)
NoLoc ==
  [op |-> "none", dom |-> "none", new_state |-> FALSE, err |-> 0, i |-> 0,
   k |-> 0, left |-> 0, wr |-> 0, st0 |-> FALSE, dist0 |-> FALSE,
   reached |-> FALSE,
   hot |-> NoHotreset, val |-> {}, prv |-> {}, stable |-> FALSE,
   run |-> 0, last |-> {}, alt |-> 0, altOpen |-> TRUE, res |-> "none",
   mc |-> TRUE, id |-> 0,
   rval |-> [rails |-> {}, code |-> 0], mask |-> {},
   cnt0 |-> [c \in Clocks |-> 0], np |-> 0]

NoPrev == [op |-> "none", dom |-> "none", new_state |-> FALSE, err |-> 0,
           wr |-> 0, st0 |-> FALSE]

\* what is remembered of a call for the next one
Summary(l) ==
  IF l.op = "pgset"
  THEN [op |-> l.op, dom |-> l.dom, new_state |-> l.new_state,
        err |-> l.err, wr |-> l.wr, st0 |-> l.st0]
  ELSE IF l.op \in {"power_on", "power_off"} /\ l.err = 0
       THEN [NoPrev EXCEPT !.op = l.op, !.dom = l.dom]
       ELSE NoPrev

Idle(t) == pc[t] \in {"idle", "done"}

\* a top-level call of operation op starts at position entry
Begin(t, op, d, s, hot, entry) ==
  /\ t \in callers
  /\ Idle(t)
  /\ prev' = IF pc[t] = "done" THEN Summary(loc[t]) ELSE prev
  /\ pc' = [pc EXCEPT ![t] = entry]
  /\ stk' = [stk EXCEPT ![t] = <<"done">>]
  /\ loc' = [loc EXCEPT ![t] = [NoLoc EXCEPT !.op = op, !.dom = d,
                                             !.new_state = s, !.hot = hot,
                                             !.cnt0 = clkCnt]]
  /\ log' = [log EXCEPT ![t] = <<>>]

\* a top-level call of a memory-controller operation: mc tells whether the
\* caller passes a controller, hot is the hot-reset descriptor it passes
BeginMc(t, op, mc, hot, entry) ==
  /\ t \in callers
  /\ Idle(t)
  /\ prev' = IF pc[t] = "done" THEN Summary(loc[t]) ELSE prev
  /\ pc' = [pc EXCEPT ![t] = entry]
  /\ stk' = [stk EXCEPT ![t] = <<"done">>]
  /\ loc' = [loc EXCEPT ![t] = [NoLoc EXCEPT !.op = op, !.hot = hot,
                                             !.mc = mc]]
  /\ log' = [log EXCEPT ![t] = <<>>]

\* return e to the caller (the position on top of the stack)
Return(t, e, l) ==
  /\ pc' = [pc EXCEPT ![t] = Head(stk[t])]
  /\ stk' = [stk EXCEPT ![t] = Tail(stk[t])]
  /\ loc' = [loc EXCEPT ![t] = [l EXCEPT !.err = e]]

\* call the function at entry and continue at ret when it returns
Call(t, entry, ret) ==
  /\ pc' = [pc EXCEPT ![t] = entry]
  /\ stk' = [stk EXCEPT ![t] = <<ret>> \o stk[t]]

Goto(t, p) == pc' = [pc EXCEPT ![t] = p]

(***************************************************************************)
(* tegra_pmc_powergate_set                                                 *)
(***************************************************************************)
PgId(t) == Descr[loc[t].dom].id

\* a mutex that excludes nobody
LockFree_Ignored(owner) == TRUE

\* mutex_lock() goes on when nobody holds the mutex
LockFree(owner) == owner = NoOwner

\* an unlock that leaves the mutex with its owner
Unlocked_Kept(owner) == owner

\* mutex_unlock(): nobody holds the mutex
Unlocked(owner) == NoOwner

\* mutex_lock(&pmc->powergates_lock)
PgSetLock(t) ==
  /\ pc[t] = "pgset"
  /\ LockFree(pmcLock)
  /\ pmcLock' = t
  /\ Goto(t, "pgset_read")
  /\ loc' = [loc EXCEPT ![t].wr = 0, ![t].reached = FALSE]
  /\ UNCHANGED <<faults, cfgVars, regVars, pmcHw, mcHw, extHw, mcLock, stk,
                 log, hist>>

\* the "nothing to do" test of a mutated primitive: never true
PgNothingToDo_NeverSkips(new_state, state) == FALSE

\* new_state == state
PgNothingToDo(new_state, state) == new_state = state

\* status = readl(PWRGATE_STATUS); state = !!(status & BIT(id));
\* if (new_state == state) { unlock; return 0; }
PgSetRead(t) ==
  /\ pc[t] = "pgset_read"
  /\ LET state == PgId(t) \in status
         l == [loc[t] EXCEPT !.st0 = state, !.dist0 = disturbed,
                             !.reached = (state = loc[t].new_state)]
     IN IF PgNothingToDo(loc[t].new_state, state)
        THEN /\ pmcLock' = Unlocked(pmcLock)
             /\ Return(t, 0, l)
             /\ log' = [log EXCEPT ![t] =
                          Append(@, Ev("powergate_set", l.new_state, 0))]
        ELSE /\ Goto(t, "pgset_write")
             /\ loc' = [loc EXCEPT ![t] = l]
             /\ UNCHANGED <<pmcLock, stk, log>>
  /\ disturbed' = FALSE
  /\ UNCHANGED <<faults, cfgVars, regVars, pmcHw, mcHw, extHw, mcLock, prev>>

\* writel(PWRGATE_TOGGLE_START | id, PWRGATE_TOGGLE);
\* timeout = jiffies + msecs_to_jiffies(50); err = -ETIMEDOUT
PgSetWrite(t) ==
  /\ pc[t] = "pgset_write"
  /\ toggle' = PgId(t)
  /\ log' = [log EXCEPT ![t] = Append(@, Ev("toggle", PgId(t), 0))]
  /\ loc' = [loc EXCEPT ![t].wr = @ + 1, ![t].left = PgTimeoutTicks,
                        ![t].err = -ETIMEDOUT]
  /\ Goto(t, "pgset_cond")
  /\ UNCHANGED <<faults, cfgVars, regVars, status, rail, mcHw, extHw, locks,
                 stk, hist>>

\* a loop condition that never sees the time run out
TimeLeft_Always(left) == TRUE

\* time_before(jiffies, timeout) / time_after(timeout, jiffies), with left
\* the ticks from jiffies to timeout
TimeLeft(left) == left > 0

\* while (time_before(jiffies, timeout))
PgSetCond(t) ==
  /\ pc[t] = "pgset_cond"
  /\ Goto(t, IF TimeLeft(loc[t].left) THEN "pgset_poll" ELSE "pgset_unlock")
  /\ UNCHANGED <<faults, cfgVars, regVars, pmcHw, mcHw, extHw, locks, stk, loc,
                 log,
                 hist>>

\* the poll test of a mutated primitive: any read ends the poll
PgPollHit_Always(id, st, new_state) == TRUE

\* (status & BIT(id)) == mask, mask = new_state ? BIT(id) : 0
PgPollHit(id, st, new_state) == (id \in st) = new_state

\* status = readl(PWRGATE_STATUS); if (hit) { err = 0; break; } usleep_range
PgSetPoll(t) ==
  /\ pc[t] = "pgset_poll"
  /\ IF PgPollHit(PgId(t), status, loc[t].new_state)
     THEN /\ loc' = [loc EXCEPT ![t].err = 0]
          /\ Goto(t, "pgset_unlock")
     ELSE /\ Goto(t, "pgset_cond")
          /\ UNCHANGED loc
  /\ disturbed' = FALSE
  /\ UNCHANGED <<faults, cfgVars, regVars, pmcHw, mcHw, extHw, locks, stk, log,
                 prev>>

\* mutex_unlock(&pmc->powergates_lock); return err;
PgSetUnlock(t) ==
  /\ pc[t] = "pgset_unlock"
  /\ pmcLock' = Unlocked(pmcLock)
  /\ Return(t, loc[t].err, loc[t])
  /\ log' = [log EXCEPT ![t] =
               Append(@, Ev("powergate_set", loc[t].new_state, loc[t].err))]
  /\ UNCHANGED <<faults, cfgVars, regVars, pmcHw, mcHw, extHw, mcLock, hist>>

tegra_pmc_powergate_set(t) ==
  \/ PgSetLock(t)
  \/ PgSetRead(t)
  \/ PgSetWrite(t)
  \/ PgSetCond(t)
  \/ PgSetPoll(t)
  \/ PgSetUnlock(t)

(***************************************************************************)
(* tegra114_stable_hotreset_check, tegra114_mc_flush,                      *)
(* tegra114_mc_flush_done                                                  *)
(***************************************************************************)
Min(a, b) == IF a < b THEN a ELSE b

\* bookkeeping of the values a caller has read from the status register:
\* run = length of the run of equal values ending with the last read,
\* alt = length of the initial run of reads that each differ from the one
\* before
NoteRead(l, v) ==
  IF l.run = 0
  THEN [l EXCEPT !.run = 1, !.last = v, !.alt = 1]
  ELSE IF v # l.last
       THEN [l EXCEPT !.run = 1, !.last = v,
                      !.alt = IF l.altOpen THEN Min(@ + 1, MaxAlt) ELSE @]
       ELSE [l EXCEPT !.run = Min(@ + 1, StableReads + 1),
                      !.altOpen = FALSE]

\* an argument test that lets every call through
FlushInvalid_Unchecked(mc, hotreset) == FALSE

\* !mc || !hotreset
FlushInvalid(mc, hotreset) == ~mc \/ hotreset = NoHotreset

\* if (!mc || !hotreset) return -EINVAL;
FlushCheck(t) ==
  /\ pc[t] \in {"flush", "flush_done"}
  /\ IF FlushInvalid(loc[t].mc, loc[t].hot)
     THEN /\ Return(t, -EINVAL, loc[t])
          /\ log' = [log EXCEPT ![t] =
                       Append(@, Ev(pc[t], loc[t].hot, -EINVAL))]
     ELSE /\ Goto(t, IF pc[t] = "flush" THEN "fl_lock" ELSE "fd_lock")
          /\ loc' = [loc EXCEPT ![t].run = 0, ![t].last = {}, ![t].alt = 0,
                                ![t].altOpen = TRUE, ![t].stable = FALSE,
                                ![t].val = {}, ![t].prv = {}, ![t].k = 0]
          /\ UNCHANGED <<stk, log>>
  /\ UNCHANGED <<faults, cfgVars, regVars, pmcHw, mcHw, extHw, locks, hist>>

\* mutex_lock(&mc->lock)
FlushLock(t) ==
  /\ pc[t] \in {"fl_lock", "fd_lock"}
  /\ LockFree(mcLock)
  /\ mcLock' = t
  /\ Goto(t, IF pc[t] = "fl_lock" THEN "fl_ctrl_read" ELSE "fd_ctrl_read")
  /\ UNCHANGED <<faults, cfgVars, regVars, pmcHw, mcHw, extHw, pmcLock, stk,
                 loc, log,
                 hist>>

\* val = mc_readl(mc, hotreset->ctrl)
FlushCtrlRead(t) ==
  /\ pc[t] \in {"fl_ctrl_read", "fd_ctrl_read"}
  /\ loc' = [loc EXCEPT ![t].val = mcCtrl]
  /\ Goto(t, IF pc[t] = "fl_ctrl_read" THEN "fl_ctrl_write"
                                       ELSE "fd_ctrl_write")
  /\ UNCHANGED <<faults, cfgVars, regVars, pmcHw, mcHw, extHw, locks, stk, log,
                 hist>>

\* a flush that writes its own bit alone
CtrlSet_Only(val, bit) == BIT(bit)

\* val |= BIT(hotreset->bit)
CtrlSet(val, bit) == val \cup BIT(bit)

\* a flush-done that clears the whole register
CtrlClear_All(val, bit) == {}

\* val &= ~BIT(hotreset->bit)
CtrlClear(val, bit) == val \ BIT(bit)

\* val |= BIT(hotreset->bit); mc_writel(mc, val, hotreset->ctrl)
FlushCtrlWrite(t) ==
  /\ pc[t] = "fl_ctrl_write"
  /\ mcCtrl' = CtrlSet(loc[t].val, loc[t].hot)
  /\ log' = [log EXCEPT ![t] = Append(@, Ev("flush", loc[t].hot, 0))]
  /\ Goto(t, "fl_ctrl_back")
  /\ UNCHANGED <<faults, cfgVars, regVars, pmcHw, mcStat, glitch, extHw, locks,
                 stk,
                 loc, hist>>

\* val &= ~BIT(hotreset->bit); mc_writel(mc, val, hotreset->ctrl)
FlushDoneCtrlWrite(t) ==
  /\ pc[t] = "fd_ctrl_write"
  /\ mcCtrl' = CtrlClear(loc[t].val, loc[t].hot)
  /\ log' = [log EXCEPT ![t] = Append(@, Ev("flush_done", loc[t].hot, 0))]
  /\ Goto(t, "fd_ctrl_back")
  /\ UNCHANGED <<faults, cfgVars, regVars, pmcHw, mcStat, glitch, extHw, locks,
                 stk,
                 loc, hist>>

\* mc_readl(mc, hotreset->ctrl): read back, value unused
FlushCtrlBack(t) ==
  /\ pc[t] \in {"fl_ctrl_back", "fd_ctrl_back"}
  /\ Goto(t, IF pc[t] = "fl_ctrl_back" THEN "fl_delay" ELSE "fd_unlock")
  /\ UNCHANGED <<faults, cfgVars, regVars, pmcHw, mcHw, extHw, locks, stk, loc,
                 log,
                 hist>>

\* do { udelay(10); val = 0; ... tegra114_stable_hotreset_check(...)
FlushDelay(t) ==
  /\ pc[t] = "fl_delay"
  /\ loc' = [loc EXCEPT ![t].val = {}]
  /\ Goto(t, "st_first")
  /\ UNCHANGED <<faults, cfgVars, regVars, pmcHw, mcHw, extHw, locks, stk, log,
                 hist>>

\* prv_stat = mc_readl(mc, reg); i = 0
StableFirst(t) ==
  /\ pc[t] = "st_first"
  /\ loc' = [loc EXCEPT ![t] = [NoteRead(loc[t], mcStat) EXCEPT
                                  !.prv = mcStat, !.k = 0]]
  /\ Goto(t, "st_next")
  /\ UNCHANGED <<faults, cfgVars, regVars, pmcHw, mcHw, extHw, locks, stk, log,
                 hist>>

\* the comparison of a mutated check: a changed value goes unnoticed
StableMismatch_Never(cur_stat, prv_stat) == FALSE

\* cur_stat != prv_stat
StableMismatch(cur_stat, prv_stat) == cur_stat # prv_stat

\* for (i = 0; i < 5; i++) { cur_stat = mc_readl(mc, reg);
\*   if (cur_stat != prv_stat) return false; }  *stat = cur_stat; return true;
StableNext(t) ==
  /\ pc[t] = "st_next"
  /\ LET l == NoteRead(loc[t], mcStat)
     IN IF StableMismatch(mcStat, loc[t].prv)
        THEN /\ loc' = [loc EXCEPT ![t] = [l EXCEPT !.stable = FALSE]]
             /\ Goto(t, "fl_while")
        ELSE IF loc[t].k + 1 < StableReads
             THEN /\ loc' = [loc EXCEPT ![t] = [l EXCEPT !.k = @ + 1]]
                  /\ Goto(t, "st_next")
             ELSE /\ loc' = [loc EXCEPT ![t] = [l EXCEPT !.k = @ + 1,
                                                         !.val = mcStat,
                                                         !.stable = TRUE]]
                  /\ Goto(t, "fl_while")
  /\ UNCHANGED <<faults, cfgVars, regVars, pmcHw, mcHw, extHw, locks, stk, log,
                 hist>>

\* the loop test of a mutated flush: one pass always suffices
FlushAgain_Never(val, bit) == FALSE

\* while (!(val & BIT(hotreset->bit)))
FlushAgain(val, bit) == bit \notin val

\* if (!stable) continue;  } while (!(val & BIT(hotreset->bit)));
FlushWhile(t) ==
  /\ pc[t] = "fl_while"
  /\ Goto(t, IF FlushAgain(loc[t].val, loc[t].hot) THEN "fl_delay"
                                                   ELSE "fl_unlock")
  /\ UNCHANGED <<faults, cfgVars, regVars, pmcHw, mcHw, extHw, locks, stk, loc,
                 log,
                 hist>>

\* mutex_unlock(&mc->lock); return 0;
FlushUnlock(t) ==
  /\ pc[t] \in {"fl_unlock", "fd_unlock"}
  /\ mcLock' = Unlocked(mcLock)
  /\ Return(t, 0, loc[t])
  /\ log' = [log EXCEPT ![t] = IF pc[t] = "fl_unlock"
                                THEN Append(@, Ev("flushed", loc[t].hot, 0))
                                ELSE @]
  /\ UNCHANGED <<faults, cfgVars, regVars, pmcHw, mcHw, extHw, pmcLock,
                 hist>>

InFlushLoop(t) == pc[t] \in {"fl_ctrl_back", "fl_delay", "st_first",
                             "st_next", "fl_while"}

\* the memory controller shows another value in the status register
HwMcStat ==
  /\ glitch > 0
  /\ glitch' = glitch - 1
  /\ \E v \in SUBSET HotBits : v # mcStat /\ mcStat' = v
  /\ UNCHANGED <<faults, cfgVars, regVars, pmcHw, mcCtrl, extHw, locks, thr,
                 hist>>

(***************************************************************************)
(* The hardware and the clock.                                             *)
(***************************************************************************)
InPgSet(t) == pc[t] \in {"pgset_read", "pgset_write", "pgset_cond",
                         "pgset_poll", "pgset_unlock"}

\* the PMC completes the toggle command: the partition's status bit flips
HwToggle ==
  /\ toggle # NoCmd
  /\ status' = IF toggle \in status THEN status \ {toggle}
                                    ELSE status \cup {toggle}
  /\ toggle' = NoCmd
  /\ disturbed' = TRUE
  /\ loc' = [t \in Threads |->
               IF InPgSet(t) /\ PgId(t) = toggle
                  /\ (toggle \in status') = loc[t].new_state
               THEN [loc[t] EXCEPT !.reached = TRUE] ELSE loc[t]]
  /\ UNCHANGED <<faults, cfgVars, regVars, rail, mcHw, extHw, locks, pc, stk,
                 log, prev>>

\* jiffies advances: every poll in progress has one tick less
Polling(t) == pc[t] \in {"pgset_cond", "pgset_poll", "rail_cond", "rail_poll"}

Tick ==
  /\ \E t \in Threads : Polling(t) /\ loc[t].left > 0
  /\ loc' = [t \in Threads |->
               IF Polling(t) /\ loc[t].left > 0
               THEN [loc[t] EXCEPT !.left = @ - 1] ELSE loc[t]]
  /\ UNCHANGED <<faults, cfgVars, regVars, pmcHw, mcHw, extHw, locks, pc, stk,
                 log,
                 hist>>

(***************************************************************************)
(* Resource bundles of a domain: clocks, resets, client groups.            *)
(* The loop index i counts from 0 as in the code; element i of an array is *)
(* element i + 1 of the sequence.                                          *)
(***************************************************************************)
Dom(t) == Descr[loc[t].dom]

\* a sequence that goes on whatever a step returned
Failed_Ignored(err) == FALSE

\* `if (err) goto out` / `if (err) return err` (err is never positive, so
\* `if (err < 0)` at the head of power_on is the same test)
Failed(err) == err # 0

\* call a function that loops over a bundle
CallLoop(t, entry, ret) ==
  /\ Call(t, entry, ret)
  /\ loc' = [loc EXCEPT ![t].i = 0]

Note(t, e) == log' = [log EXCEPT ![t] = Append(@, e)]

\* an external subsystem reports a failure
Fault == faults > 0 /\ faults' = faults - 1

\* clk_disable_unprepare that leaves the enable count
ClkDisabled_Kept(cnt) == cnt

\* clk_disable_unprepare on an enable count
ClkDisabled(cnt) == IF cnt > 0 THEN cnt - 1 ELSE 0

\* tegra_pmc_powergate_enable_clocks: the loop
EnableClocks(t) ==
  /\ pc[t] = "enclk"
  /\ LET clk == Dom(t).clk
         i == loc[t].i
     IN IF i >= Len(clk)
        THEN /\ Return(t, 0, loc[t])
             /\ UNCHANGED <<clkCnt, log, faults>>
        ELSE \/ /\ clkCnt' = [clkCnt EXCEPT ![clk[i + 1]] = @ + 1]
                /\ Note(t, Ev("clk_enable", clk[i + 1], 0))
                /\ loc' = [loc EXCEPT ![t].i = i + 1]
                /\ UNCHANGED <<pc, stk, faults>>
             \/ /\ Fault
                /\ Note(t, Ev("clk_enable", clk[i + 1], ExtErr.clk))
                /\ loc' = [loc EXCEPT ![t].err = ExtErr.clk]
                /\ Goto(t, "enclk_out")
                /\ UNCHANGED <<clkCnt, stk>>
  /\ UNCHANGED <<cfgVars, regVars, pmcHw, mcHw, regCnt, rstLine, locks, hist>>

\* an error path that disables nothing
UnwindDone_AtOnce(i) == TRUE

\* while (i--): the loop ends when i is 0
UnwindDone(i) == i = 0

\* tegra_pmc_powergate_enable_clocks, out: while (i--) clk_disable_unprepare
EnableClocksOut(t) ==
  /\ pc[t] = "enclk_out"
  /\ LET clk == Dom(t).clk
         i == loc[t].i
     IN IF UnwindDone(i)
        THEN /\ Return(t, loc[t].err, loc[t])
             /\ UNCHANGED <<clkCnt, log>>
        ELSE /\ clkCnt' = [clkCnt EXCEPT ![clk[i]] = ClkDisabled(@)]
             /\ Note(t, Ev("clk_disable", clk[i], 0))
             /\ loc' = [loc EXCEPT ![t].i = i - 1]
             /\ UNCHANGED <<pc, stk>>
  /\ UNCHANGED <<faults, cfgVars, regVars, pmcHw, mcHw, regCnt, rstLine,
                 locks, hist>>

\* tegra_pmc_powergate_disable_clocks
DisableClocks(t) ==
  /\ pc[t] = "disclk"
  /\ LET clk == Dom(t).clk
         i == loc[t].i
     IN IF i >= Len(clk)
        THEN /\ Return(t, loc[t].err, loc[t])
             /\ UNCHANGED <<clkCnt, log>>
        ELSE /\ clkCnt' = [clkCnt EXCEPT ![clk[i + 1]] = ClkDisabled(@)]
             /\ Note(t, Ev("clk_disable", clk[i + 1], 0))
             /\ loc' = [loc EXCEPT ![t].i = i + 1]
             /\ UNCHANGED <<pc, stk>>
  /\ UNCHANGED <<faults, cfgVars, regVars, pmcHw, mcHw, regCnt, rstLine,
                 locks, hist>>

\* tegra_pmc_powergate_reset_assert / tegra_pmc_powergate_reset_deassert
ResetLoop(t) ==
  /\ pc[t] \in {"rst_assert", "rst_deassert"}
  /\ LET reset == Dom(t).reset
         i == loc[t].i
         what == IF pc[t] = "rst_assert" THEN "reset_assert"
                                         ELSE "reset_deassert"
     IN IF i >= Len(reset)
        THEN /\ Return(t, 0, loc[t])
             /\ UNCHANGED <<rstLine, log, faults>>
        ELSE \/ /\ rstLine' = [rstLine EXCEPT ![reset[i + 1]] =
                                 (pc[t] = "rst_assert")]
                /\ Note(t, Ev(what, reset[i + 1], 0))
                /\ loc' = [loc EXCEPT ![t].i = i + 1]
                /\ UNCHANGED <<pc, stk, faults>>
             \/ /\ Fault
                /\ Note(t, Ev(what, reset[i + 1], ExtErr.reset))
                /\ Return(t, ExtErr.reset, loc[t])
                /\ UNCHANGED rstLine
  /\ UNCHANGED <<cfgVars, regVars, pmcHw, mcHw, regCnt, clkCnt, locks, hist>>

\* tegra_mc_flush / tegra_mc_flush_done: hand the group's hot-reset
\* descriptor (none if the table has no entry) to the flush operation
tegra_mc_hotreset_of(sg) == tegra114_mc_hotreset(sg)

\* a loop that walks the client groups last registered first
NextGroup_Reversed(swgroup, i) == swgroup[Len(swgroup) - i]

\* powergate->swgroup[i], the array index starting at 0
NextGroup(swgroup, i) == swgroup[i + 1]

\* tegra_pmc_powergate_mc_flush / tegra_pmc_powergate_mc_flush_done: the loop
McFlushLoop(t) ==
  /\ pc[t] \in {"mc_flush", "mc_flush_done"}
  /\ LET swgroup == Dom(t).swgroup
         i == loc[t].i
     IN IF i >= Len(swgroup)
        THEN Return(t, 0, loc[t])
        ELSE /\ Call(t, IF pc[t] = "mc_flush" THEN "flush" ELSE "flush_done",
                     IF pc[t] = "mc_flush" THEN "mc_flush_err"
                                           ELSE "mc_flush_done_err")
             /\ loc' = [loc EXCEPT
                          ![t].hot =
                            tegra_mc_hotreset_of(NextGroup(swgroup, i))]
  /\ UNCHANGED <<faults, cfgVars, regVars, pmcHw, mcHw, extHw, locks, log,
                 hist>>

\* ... if (err) return err
McFlushErr(t) ==
  /\ pc[t] \in {"mc_flush_err", "mc_flush_done_err"}
  /\ IF Failed(loc[t].err)
     THEN Return(t, loc[t].err, loc[t])
     ELSE /\ Goto(t, IF pc[t] = "mc_flush_err" THEN "mc_flush"
                                               ELSE "mc_flush_done")
          /\ loc' = [loc EXCEPT ![t].i = @ + 1]
          /\ UNCHANGED stk
  /\ UNCHANGED <<faults, cfgVars, regVars, pmcHw, mcHw, extHw, locks, log,
                 hist>>

(***************************************************************************)
(* The regulator of an external-rail domain.                               *)
(***************************************************************************)
\* tegra_powergate_get_regulator.  The platform device of the node may not
\* exist yet, and the regulator may not be there yet.
GetRegulator(t) ==
  /\ pc[t] = "getreg"
  /\ LET d == loc[t].dom
     IN IF ~Descr[d].is_vdd
        THEN /\ Return(t, -EINVAL, loc[t])
             /\ Note(t, Ev("get_regulator", d, -EINVAL))
             /\ UNCHANGED vdd
        ELSE IF vdd[d] = "ok"
        THEN /\ Return(t, 0, loc[t])
             /\ Note(t, Ev("get_regulator", d, 0))
             /\ UNCHANGED vdd
        ELSE \/ /\ Return(t, -EINVAL, loc[t])          \* no pdev
                /\ Note(t, Ev("get_regulator", d, -EINVAL))
                /\ UNCHANGED vdd
             \/ /\ vdd' = [vdd EXCEPT ![d] = "err"]
                /\ Return(t, -EINVAL, loc[t])
                /\ Note(t, Ev("get_regulator", d, -EINVAL))
             \/ /\ vdd' = [vdd EXCEPT ![d] = "ok"]
                /\ Return(t, 0, loc[t])
                /\ Note(t, Ev("get_regulator", d, 0))
  /\ UNCHANGED <<faults, cfgVars, genpd, pmcHw, mcHw, extHw, locks, hist>>

(***************************************************************************)
(* tegra_powergate_remove_clamping                                         *)
(***************************************************************************)
\* pmc->soc before the probe has chosen a chip variant (NULL)
NoSoc ==
  [name |-> "none", num_powergates |-> 0,
   has_gpu_clamps |-> FALSE, is_legacy_powergate |-> FALSE]

\* a test that lets every id through
ValidId_Any(s, id) == TRUE

\* !(!pmc->soc || id < 0 || id >= pmc->soc->num_powergates)
ValidId(s, id) == s # NoSoc /\ id >= 0 /\ id < s.num_powergates

\* the id argument: powergate->id in the calls on a domain, the id passed
\* by a caller of the exported function otherwise
ArgId(t) == IF loc[t].dom = "none" THEN loc[t].id ELSE Dom(t).id

\* a clamp removal without the GPU register
ClampWrite_NoGpu(s, id) ==
  [reg |-> "REMOVE_CLAMPING",
   val |-> IF id = TEGRA_POWERGATE_VDEC THEN BIT(TEGRA_POWERGATE_PCIE)
           ELSE IF id = TEGRA_POWERGATE_PCIE THEN BIT(TEGRA_POWERGATE_VDEC)
                ELSE BIT(id)]

\* a clamp removal without the swap of the PCIE and VDEC bits
ClampWrite_NoSwap(s, id) ==
  IF id = TEGRA_POWERGATE_3D /\ s.has_gpu_clamps
  THEN [reg |-> "GPU_RG_CNTRL", val |-> {}]
  ELSE [reg |-> "REMOVE_CLAMPING", val |-> BIT(id)]

\* the register written and the value written to it
ClampWrite(s, id) ==
  IF id = TEGRA_POWERGATE_3D /\ s.has_gpu_clamps
  THEN [reg |-> "GPU_RG_CNTRL", val |-> {}]
  ELSE [reg |-> "REMOVE_CLAMPING",
        val |-> IF id = TEGRA_POWERGATE_VDEC THEN BIT(TEGRA_POWERGATE_PCIE)
                ELSE IF id = TEGRA_POWERGATE_PCIE
                     THEN BIT(TEGRA_POWERGATE_VDEC)
                     ELSE BIT(id)]

NoWrite == [reg |-> "none", val |-> {}]

RemoveClamping(t) ==
  /\ pc[t] = "clamp"
  /\ IF ~ValidId(soc, ArgId(t))
     THEN /\ Return(t, -EINVAL, loc[t])
          /\ Note(t, Ev("clamp", NoWrite, -EINVAL))
     ELSE /\ Return(t, 0, loc[t])
          /\ Note(t, Ev("clamp", ClampWrite(soc, ArgId(t)), 0))
  /\ UNCHANGED <<faults, cfgVars, regVars, pmcHw, mcHw, extHw, locks, hist>>

(***************************************************************************)
(* tegra_pmc_powergate_power_on                                            *)
(***************************************************************************)
\* if (powergate->is_vdd) get the regulator, else switch the power gate on
PowerOnSupply(t) ==
  /\ pc[t] = "pon"
  /\ IF Dom(t).is_vdd
     THEN /\ Call(t, "getreg", "pon_regen")
          /\ UNCHANGED loc
     ELSE /\ Call(t, "pgset", "pon_legacy")
          /\ loc' = [loc EXCEPT ![t].new_state = TRUE]
  /\ UNCHANGED <<faults, cfgVars, regVars, pmcHw, mcHw, extHw, locks, log,
                 hist>>

\* if (!err) err = regulator_enable(powergate->vdd)
PowerOnRegEnable(t) ==
  /\ pc[t] = "pon_regen"
  /\ Goto(t, "pon_legacy")
  /\ IF loc[t].err # 0
     THEN UNCHANGED <<regCnt, log, loc, faults>>
     ELSE \/ /\ regCnt' = [regCnt EXCEPT ![loc[t].dom] = @ + 1]
             /\ Note(t, Ev("reg_enable", loc[t].dom, 0))
             /\ UNCHANGED <<loc, faults>>
          \/ /\ Fault
             /\ Note(t, Ev("reg_enable", loc[t].dom, ExtErr.regulator))
             /\ loc' = [loc EXCEPT ![t].err = ExtErr.regulator]
             /\ UNCHANGED regCnt
  /\ UNCHANGED <<cfgVars, regVars, pmcHw, mcHw, clkCnt, rstLine, locks, stk,
                 hist>>

\* a chip variant test that takes no variant for a legacy one
LegacySequencing_Never(s) == FALSE

\* pmc->soc->is_legacy_powergate
LegacySequencing(s) == s.is_legacy_powergate

\* a domain test that takes no domain for PCIE
ClocksExternal_None(id) == FALSE

\* powergate->id == TEGRA_POWERGATE_PCIE: the clocks are left to the driver
ClocksExternal(id) == id = TEGRA_POWERGATE_PCIE

\* if (err < 0) goto out; legacy: assert the resets
PowerOnLegacy(t) ==
  /\ pc[t] = "pon_legacy"
  /\ IF Failed(loc[t].err)
     THEN Return(t, loc[t].err, loc[t])
     ELSE IF LegacySequencing(soc)
          THEN CallLoop(t, "rst_assert", "pon_clk")
          ELSE Goto(t, "pon_clk") /\ UNCHANGED <<stk, loc>>
  /\ UNCHANGED <<faults, cfgVars, regVars, pmcHw, mcHw, extHw, locks, log,
                 hist>>

\* if (err) goto out; enable the clocks unless the domain is PCIE
PowerOnClocks(t) ==
  /\ pc[t] = "pon_clk"
  /\ IF Failed(loc[t].err)
     THEN Return(t, loc[t].err, loc[t])
     ELSE IF ~ClocksExternal(Dom(t).id)
          THEN CallLoop(t, "enclk", "pon_clamp")
          ELSE Goto(t, "pon_clamp") /\ UNCHANGED <<stk, loc>>
  /\ UNCHANGED <<faults, cfgVars, regVars, pmcHw, mcHw, extHw, locks, log,
                 hist>>

\* the later steps: if (err) goto out; else the next call
PowerOnThen(t, here, entry, ret) ==
  /\ pc[t] = here
  /\ IF Failed(loc[t].err)
     THEN Return(t, loc[t].err, loc[t])
     ELSE CallLoop(t, entry, ret)
  /\ UNCHANGED <<faults, cfgVars, regVars, pmcHw, mcHw, extHw, locks, log,
                 hist>>

\* a sequence that releases the resets before it removes the clamps
PowerOnCallee_DeassertFirst(here) ==
  CASE here = "pon_clamp" -> "rst_deassert"
    [] here = "pon_deassert" -> "clamp"
    [] here = "pon_flush_done" -> "mc_flush_done"

\* the function called at each of the later steps
PowerOnCallee(here) ==
  CASE here = "pon_clamp" -> "clamp"
    [] here = "pon_deassert" -> "rst_deassert"
    [] here = "pon_flush_done" -> "mc_flush_done"

PowerOnClamp(t) ==
  PowerOnThen(t, "pon_clamp", PowerOnCallee("pon_clamp"), "pon_deassert")
PowerOnDeassert(t) ==
  PowerOnThen(t, "pon_deassert", PowerOnCallee("pon_deassert"),
              "pon_flush_done")
PowerOnFlushDone(t) ==
  PowerOnThen(t, "pon_flush_done", PowerOnCallee("pon_flush_done"),
              "pon_disclk")

\* if (err) goto out; disable the clocks unless the domain is PCIE
PowerOnDisable(t) ==
  /\ pc[t] = "pon_disclk"
  /\ IF Failed(loc[t].err)
     THEN Return(t, loc[t].err, loc[t])
     ELSE IF ~ClocksExternal(Dom(t).id)
          THEN CallLoop(t, "disclk", "pon_ret")
          ELSE Goto(t, "pon_ret") /\ UNCHANGED <<stk, loc>>
  /\ UNCHANGED <<faults, cfgVars, regVars, pmcHw, mcHw, extHw, locks, log,
                 hist>>

\* return 0
PowerOnRet(t) ==
  /\ pc[t] = "pon_ret"
  /\ Return(t, 0, loc[t])
  /\ UNCHANGED <<faults, cfgVars, regVars, pmcHw, mcHw, extHw, locks, log,
                 hist>>

tegra_pmc_powergate_power_on(t) ==
  \/ PowerOnSupply(t)
  \/ PowerOnRegEnable(t)
  \/ PowerOnLegacy(t)
  \/ PowerOnClocks(t)
  \/ PowerOnClamp(t)
  \/ PowerOnDeassert(t)
  \/ PowerOnFlushDone(t)
  \/ PowerOnDisable(t)
  \/ PowerOnRet(t)

(***************************************************************************)
(* tegra_pmc_powergate_power_off                                           *)
(***************************************************************************)
\* a power-off without the switch
AlwaysOn_None(id) == FALSE

\* the switch on powergate->id: "never turn off these partitions"
AlwaysOn(id) ==
  id \in {TEGRA_POWERGATE_CPU, TEGRA_POWERGATE_CPU1, TEGRA_POWERGATE_CPU2,
          TEGRA_POWERGATE_CPU3, TEGRA_POWERGATE_CPU0, TEGRA_POWERGATE_C0NC,
          TEGRA_POWERGATE_IRAM}

PowerOffEntry(t) ==
  /\ pc[t] = "poff"
  /\ IF AlwaysOn(Dom(t).id)
     THEN Return(t, -EINVAL, loc[t])
     ELSE IF ~LegacySequencing(soc)
          THEN /\ Call(t, "enclk", "poff_flush")
               /\ loc' = [loc EXCEPT ![t].i = 0, ![t].err = 0]
          ELSE /\ Goto(t, "poff_assert")
               /\ loc' = [loc EXCEPT ![t].err = 0]
               /\ UNCHANGED stk
  /\ UNCHANGED <<faults, cfgVars, regVars, pmcHw, mcHw, extHw, locks, log,
                 hist>>

\* if (err) goto out; else the next call
PowerOffThen(t, here, entry, ret) ==
  /\ pc[t] = here
  /\ IF Failed(loc[t].err)
     THEN Return(t, loc[t].err, loc[t])
     ELSE CallLoop(t, entry, ret)
  /\ UNCHANGED <<faults, cfgVars, regVars, pmcHw, mcHw, extHw, locks, log,
                 hist>>

\* a sequence that asserts the resets before it flushes the client groups
PowerOffCallee_AssertFirst(here) ==
  CASE here = "poff_flush" -> "rst_assert"
    [] here = "poff_assert" -> "mc_flush"

\* the function called at each of these steps
PowerOffCallee(here) ==
  CASE here = "poff_flush" -> "mc_flush"
    [] here = "poff_assert" -> "rst_assert"

PowerOffFlush(t) ==
  PowerOffThen(t, "poff_flush", PowerOffCallee("poff_flush"), "poff_assert")
PowerOffAssert(t) ==
  PowerOffThen(t, "poff_assert", PowerOffCallee("poff_assert"),
               "poff_disclk")

\* if (err) goto out; non-legacy: disable the clocks
PowerOffDisable(t) ==
  /\ pc[t] = "poff_disclk"
  /\ IF Failed(loc[t].err)
     THEN Return(t, loc[t].err, loc[t])
     ELSE IF ~LegacySequencing(soc)
          THEN CallLoop(t, "disclk", "poff_supply")
          ELSE Goto(t, "poff_supply") /\ UNCHANGED <<stk, loc>>
  /\ UNCHANGED <<faults, cfgVars, regVars, pmcHw, mcHw, extHw, locks, log,
                 hist>>

\* if (powergate->vdd) err = regulator_disable(powergate->vdd);
\* else err = tegra_pmc_powergate_set(powergate, false);
\* An error pointer is not NULL: regulator_disable then dereferences it,
\* which stops the caller, or (regulator support compiled out) returns 0.
\* A disable without a matching enable is refused by the regulator core.
PowerOffSupply(t) ==
  /\ pc[t] = "poff_supply"
  /\ LET d == loc[t].dom
     IN CASE vdd[d] = "null" ->
               /\ Call(t, "pgset", "poff_ret")
               /\ loc' = [loc EXCEPT ![t].new_state = FALSE]
               /\ UNCHANGED <<regCnt, log, faults>>
          [] vdd[d] = "err" ->
               /\ \/ Goto(t, "crashed")
                  \/ Goto(t, "poff_ret")
               /\ Note(t, Ev("reg_disable", d, 0))
               /\ loc' = [loc EXCEPT ![t].err = 0]
               /\ UNCHANGED <<regCnt, stk, faults>>
          [] vdd[d] = "ok" ->
               /\ Goto(t, "poff_ret")
               /\ UNCHANGED stk
               /\ \/ /\ regCnt[d] > 0
                     /\ regCnt' = [regCnt EXCEPT ![d] = @ - 1]
                     /\ Note(t, Ev("reg_disable", d, 0))
                     /\ loc' = [loc EXCEPT ![t].err = 0]
                     /\ UNCHANGED faults
                  \/ /\ IF regCnt[d] > 0 THEN Fault ELSE UNCHANGED faults
                     /\ Note(t, Ev("reg_disable", d, ExtErr.regulator))
                     /\ loc' = [loc EXCEPT ![t].err = ExtErr.regulator]
                     /\ UNCHANGED regCnt
  /\ UNCHANGED <<cfgVars, regVars, pmcHw, mcHw, clkCnt, rstLine, locks, hist>>

\* if (err) goto out; return 0
PowerOffRet(t) ==
  /\ pc[t] = "poff_ret"
  /\ Return(t, loc[t].err, loc[t])
  /\ UNCHANGED <<faults, cfgVars, regVars, pmcHw, mcHw, extHw, locks, log,
                 hist>>

tegra_pmc_powergate_power_off(t) ==
  \/ PowerOffEntry(t)
  \/ PowerOffFlush(t)
  \/ PowerOffAssert(t)
  \/ PowerOffDisable(t)
  \/ PowerOffSupply(t)
  \/ PowerOffRet(t)

(***************************************************************************)
(* tegra_pmc_powergate_is_powered and tegra_powergate_is_powered           *)
(***************************************************************************)
Bool(b) == IF b THEN "true" ELSE "false"

\* The status register is read without the lock.  For an external-rail
\* domain whose regulator handle is NULL, regulator_is_enabled dereferences
\* NULL, which stops the caller, or (regulator support compiled out)
\* returns 1.
IsPowered(t) ==
  /\ pc[t] = "ispw"
  /\ LET d == loc[t].dom
         l == [loc[t] EXCEPT !.dist0 = disturbed]
     IN IF ~Descr[d].is_vdd
        THEN Return(t, l.err, [l EXCEPT !.res = Bool(Descr[d].id \in status)])
        ELSE IF vdd[d] = "err"
        THEN Return(t, l.err, [l EXCEPT !.res = "false"])
        ELSE IF vdd[d] = "ok"
        THEN Return(t, l.err, [l EXCEPT !.res = Bool(regCnt[d] > 0)])
        ELSE \/ Goto(t, "crashed") /\ UNCHANGED <<stk, loc>>
             \/ Return(t, l.err, [l EXCEPT !.res = "true"])
  /\ disturbed' = FALSE
  /\ UNCHANGED <<faults, cfgVars, regVars, pmcHw, mcHw, extHw, locks, log,
                 prev>>

\* tegra_powergate_is_powered(id): the status bit, whatever the domain
IsPoweredId(t) ==
  /\ pc[t] = "ispw_id"
  /\ LET id == ArgId(t)
         l == [loc[t] EXCEPT !.dist0 = disturbed]
     IN IF ~ValidId(soc, id)
        THEN Return(t, -EINVAL, [l EXCEPT !.res = "einval"])
        ELSE Return(t, l.err, [l EXCEPT !.res = Bool(id \in status)])
  /\ disturbed' = FALSE
  /\ UNCHANGED <<faults, cfgVars, regVars, pmcHw, mcHw, extHw, locks, log,
                 prev>>

(***************************************************************************)
(* tegra_pmc_powergate_init_powerdomain: the body of the loop, for one     *)
(* node of the tree                                                        *)
(***************************************************************************)
\* devm_kzalloc; "external-power-rail": is_vdd and the regulator lookup
RegAlloc(t) ==
  /\ pc[t] = "reg"
  /\ IF Dom(t).is_vdd
     THEN Call(t, "getreg", "reg_res")
     ELSE Goto(t, "reg_res") /\ UNCHANGED stk
  /\ UNCHANGED <<faults, cfgVars, regVars, pmcHw, mcHw, extHw, locks, loc,
                 log, hist>>

\* the lookup that fails, and the error it gives: tegra_powergate_of_get_clks,
\* tegra_powergate_of_get_resets, tegra_powergate_of_get_swgroups
OfGetErr ==
  [of_get_clks |-> ExtErr.clk, of_get_resets |-> ExtErr.reset,
   of_get_swgroups |-> -EINVAL]

\* err = tegra_powergate_of_get_...(powergate); if (err) return err;
LookupFailed(err) == err # 0

\* powergate->base.name = kstrdup(...) (NULL when the allocation fails);
\* the clocks, resets and client groups of the node are looked up; the
\* first lookup that fails ends the function with its error
RegResources(t) ==
  /\ pc[t] = "reg_res"
  /\ \/ /\ pd' = [pd EXCEPT !.named = @ \cup {loc[t].dom}]
        /\ Goto(t, "reg_add")
        /\ UNCHANGED <<faults, stk, loc, log>>
     \/ /\ Fault
        /\ pd' = [pd EXCEPT !.named = @ \ {loc[t].dom}]
        /\ Goto(t, "reg_add")
        /\ UNCHANGED <<stk, loc, log>>
     \/ \E f \in DOMAIN OfGetErr :
          /\ Fault
          /\ pd' = [pd EXCEPT !.named = @ \cup {loc[t].dom}]
          /\ Note(t, Ev(f, loc[t].dom, OfGetErr[f]))
          /\ IF LookupFailed(OfGetErr[f])
             THEN Return(t, OfGetErr[f], loc[t])
             ELSE Goto(t, "reg_add") /\ UNCHANGED <<stk, loc>>
  /\ UNCHANGED <<soc, doms, callers, node, regVars, pmcHw, mcHw, extHw, locks,
                 hist>>

\* whether registration attempts the power-off
RegPowersOff(is_vdd, v) == (is_vdd /\ v # "err") \/ ~is_vdd

\* list_add_tail; the power-off unless the regulator lookup gave an error
RegAdd(t) ==
  /\ pc[t] = "reg_add"
  /\ doms' = doms \cup {loc[t].dom}
  /\ pd' = [pd EXCEPT !.list = Append(@, loc[t].dom)]
  /\ IF RegPowersOff(Dom(t).is_vdd, vdd[loc[t].dom])
     THEN Call(t, "poff", "reg_off")
     ELSE Goto(t, "reg_off") /\ UNCHANGED stk
  /\ UNCHANGED <<faults, soc, callers, node, regVars, pmcHw, mcHw, extHw,
                 locks, loc, log, hist>>

\* off = !tegra_pmc_powergate_is_powered(powergate)
RegOff(t) ==
  /\ pc[t] = "reg_off"
  /\ Call(t, "ispw", "reg_genpd")
  /\ UNCHANGED <<faults, cfgVars, regVars, pmcHw, mcHw, extHw, locks, loc,
                 log, hist>>

\* pm_genpd_init(&powergate->base, NULL, off)
RegGenpd(t) ==
  /\ pc[t] = "reg_genpd"
  /\ genpd' = [genpd EXCEPT ![loc[t].dom] =
                 IF loc[t].res = "true" THEN "on" ELSE "off"]
  /\ Return(t, 0, loc[t])
  /\ UNCHANGED <<faults, cfgVars, vdd, pmcHw, mcHw, extHw, locks, log, hist>>

tegra_pmc_powergate_init_powerdomain(t) ==
  \/ RegAlloc(t)
  \/ RegResources(t)
  \/ RegAdd(t)
  \/ RegOff(t)
  \/ RegGenpd(t)

(***************************************************************************)
(* The CPU hotplug functions: tegra_get_cpu_powergate_id,                  *)
(* tegra_pmc_cpu_is_powered, tegra_pmc_cpu_power_on,                       *)
(* tegra_pmc_cpu_remove_clamping and the tegra_powergate_set they use.     *)
(***************************************************************************)
\* pmc->soc->cpu_powergates of the four chip variants (NULL on Tegra20)
cpu_powergates(s) ==
  CASE s.name = "tegra20" -> <<>>
    [] s.name = "tegra30" ->
         <<TEGRA_POWERGATE_CPU, TEGRA_POWERGATE_CPU1, TEGRA_POWERGATE_CPU2,
           TEGRA_POWERGATE_CPU3>>
    [] s.name = "tegra114" ->
         <<TEGRA_POWERGATE_CPU0, TEGRA_POWERGATE_CPU1, TEGRA_POWERGATE_CPU2,
           TEGRA_POWERGATE_CPU3>>
    [] s.name = "tegra124" ->
         <<TEGRA_POWERGATE_CPU0, TEGRA_POWERGATE_CPU1, TEGRA_POWERGATE_CPU2,
           TEGRA_POWERGATE_CPU3>>

num_cpu_powergates(s) == Len(cpu_powergates(s))

\* if (pmc->soc && cpuid > 0 && cpuid < pmc->soc->num_cpu_powergates)
\*         return pmc->soc->cpu_powergates[cpuid];
\* return -EINVAL;
tegra_get_cpu_powergate_id(s, cpuid) ==
  IF cpuid > 0 /\ cpuid < num_cpu_powergates(s)
  THEN cpu_powergates(s)[cpuid + 1]
  ELSE -EINVAL

\* the local id of the three functions
CpuId(t) == tegra_get_cpu_powergate_id(soc, loc[t].id)

\* a top-level call of one of the three functions with argument cpuid
BeginCpu(t, op, cpuid, entry) ==
  /\ t \in callers
  /\ Idle(t)
  /\ prev' = IF pc[t] = "done" THEN Summary(loc[t]) ELSE prev
  /\ pc' = [pc EXCEPT ![t] = entry]
  /\ stk' = [stk EXCEPT ![t] = <<"done">>]
  /\ loc' = [loc EXCEPT ![t] = [NoLoc EXCEPT !.op = op, !.id = cpuid]]
  /\ log' = [log EXCEPT ![t] = <<>>]

\* tegra_powergate_is_powered(id) as an int: -EINVAL, 0 or 1
IsPoweredInt(s, id, st) ==
  IF ~ValidId(s, id) THEN -EINVAL ELSE IF id \in st THEN 1 ELSE 0

\* tegra_pmc_cpu_is_powered: if (id < 0) return false;
\* return tegra_powergate_is_powered(id);   (int to bool)
CpuIsPowered(t) ==
  /\ pc[t] = "cpu_ispw"
  /\ IF CpuId(t) < 0
     THEN /\ Return(t, 0, [loc[t] EXCEPT !.res = "false"])
          /\ UNCHANGED log
     ELSE LET r == IsPoweredInt(soc, CpuId(t), status)
          IN /\ Return(t, 0, [loc[t] EXCEPT !.res = Bool(r # 0)])
             /\ Note(t, Ev("is_powered", CpuId(t), r))
  /\ UNCHANGED <<faults, cfgVars, regVars, pmcHw, mcHw, extHw, locks, hist>>

\* tegra_pmc_cpu_power_on: if (id < 0) return id;
\* return tegra_powergate_set(id, true);
CpuPowerOn(t) ==
  /\ pc[t] = "cpu_on"
  /\ IF CpuId(t) < 0
     THEN Return(t, CpuId(t), loc[t])
     ELSE /\ Call(t, "pgs", "cpu_ret")
          /\ loc' = [loc EXCEPT ![t].new_state = TRUE]
  /\ UNCHANGED <<faults, cfgVars, regVars, pmcHw, mcHw, extHw, locks, log,
                 hist>>

\* tegra_powergate_set: mutex_lock(&pmc->powergates_lock)
PowergateSetLock(t) ==
  /\ pc[t] = "pgs"
  /\ LockFree(pmcLock)
  /\ pmcLock' = t
  /\ Goto(t, "pgs_read")
  /\ UNCHANGED <<faults, cfgVars, regVars, pmcHw, mcHw, extHw, mcLock, stk,
                 loc, log, hist>>

\* status = tegra_pmc_readl(PWRGATE_STATUS) & (1 << id);
\* if (status == new_state) { mutex_unlock; return 0; }
PowergateSetRead(t) ==
  /\ pc[t] = "pgs_read"
  /\ IF (CpuId(t) \in status) = loc[t].new_state
     THEN /\ pmcLock' = Unlocked(pmcLock)
          /\ Return(t, 0, loc[t])
          /\ Note(t, Ev("powergate_set", CpuId(t), 0))
     ELSE /\ Goto(t, "pgs_write")
          /\ UNCHANGED <<pmcLock, stk, loc, log>>
  /\ UNCHANGED <<faults, cfgVars, regVars, pmcHw, mcHw, extHw, mcLock, hist>>

\* tegra_pmc_writel(PWRGATE_TOGGLE_START | id, PWRGATE_TOGGLE);
\* mutex_unlock(&pmc->powergates_lock); return 0;
PowergateSetWrite(t) ==
  /\ pc[t] = "pgs_write"
  /\ toggle' = CpuId(t)
  /\ pmcLock' = Unlocked(pmcLock)
  /\ Return(t, 0, loc[t])
  /\ log' = [log EXCEPT ![t] = @ \o <<Ev("toggle", CpuId(t), 0),
                                      Ev("powergate_set", CpuId(t), 0)>>]
  /\ UNCHANGED <<faults, cfgVars, regVars, status, rail, mcHw, extHw, mcLock,
                 hist>>

tegra_powergate_set(t) ==
  \/ PowergateSetLock(t)
  \/ PowergateSetRead(t)
  \/ PowergateSetWrite(t)

\* return of the value of the function called last
CpuRet(t) ==
  /\ pc[t] = "cpu_ret"
  /\ Return(t, loc[t].err, loc[t])
  /\ UNCHANGED <<faults, cfgVars, regVars, pmcHw, mcHw, extHw, locks, log,
                 hist>>

\* tegra_pmc_cpu_remove_clamping: if (id < 0) return id; usleep_range(10, 20);
\* return tegra_powergate_remove_clamping(id);
CpuRemoveClamping(t) ==
  /\ pc[t] = "cpu_clamp"
  /\ IF CpuId(t) < 0
     THEN /\ Return(t, CpuId(t), loc[t])
          /\ UNCHANGED log
     ELSE IF ~ValidId(soc, CpuId(t))
          THEN /\ Return(t, -EINVAL, loc[t])
               /\ Note(t, Ev("clamp", NoWrite, -EINVAL))
          ELSE /\ Return(t, 0, loc[t])
               /\ Note(t, Ev("clamp", ClampWrite(soc, CpuId(t)), 0))
  /\ UNCHANGED <<faults, cfgVars, regVars, pmcHw, mcHw, extHw, locks, hist>>

(***************************************************************************)
(* unsigned long arithmetic of tegra_io_rail_prepare.  An unsigned long    *)
(* of the 32-bit ARM builds of the Tegra20..Tegra124 devices is kept as    *)
(* two 16-bit halves, value = hi * 2^16 + lo; sums wrap at 2^32.           *)
(***************************************************************************)
Half == 65536

UL(hi, lo) == [hi |-> hi, lo |-> lo]

\* a number below 2^31 as unsigned long, and back
ToUL(n) == UL(n \div Half, n % Half)
FromUL(a) == a.hi * Half + a.lo

\* a + b (mod 2^32)
AddUL(a, b) ==
  LET lo == a.lo + b.lo
  IN UL((a.hi + b.hi + lo \div Half) % Half, lo % Half)

\* a >= b
GeqUL(a, b) == a.hi > b.hi \/ (a.hi = b.hi /\ a.lo >= b.lo)

\* a - b, for a >= b
SubUL(a, b) ==
  IF a.lo >= b.lo THEN UL(a.hi - b.hi, a.lo - b.lo)
                  ELSE UL(a.hi - b.hi - 1, a.lo + Half - b.lo)

\* bit i of a
BitUL(a, i) == IF i >= 16 THEN (a.hi \div 2^(i - 16)) % 2
                          ELSE (a.lo \div 2^i) % 2

\* n / d by shift and subtract, from bit i down: q the quotient bits found,
\* r the running remainder (r < d, so 2r + 1 needs 33 bits at most)
RECURSIVE DivUL(_, _, _, _, _)
DivUL(n, d, i, q, r) ==
  IF i < 0 THEN q
  ELSE LET lo == 2 * r.lo + BitUL(n, i)
           r1 == UL(2 * r.hi + lo \div Half, lo % Half)
       IN IF GeqUL(r1, d)
          THEN DivUL(n, d, i - 1,
                     IF i >= 16 THEN UL(q.hi + 2^(i - 16), q.lo)
                                ELSE UL(q.hi, q.lo + 2^i),
                     SubUL(r1, d))
          ELSE DivUL(n, d, i - 1, q, r1)

\* #define DIV_ROUND_UP(n, d) (((n) + (d) - 1) / (d)), for d # 0
DIV_ROUND_UP(n, d) ==
  DivUL(AddUL(AddUL(n, d), UL(Half - 1, Half - 1)), d, 31, ToUL(0), ToUL(0))

(***************************************************************************)
(* tegra_io_rail_prepare, tegra_io_rail_poll, tegra_io_rail_unprepare,     *)
(* tegra_io_rail_power_on, tegra_io_rail_power_off                         *)
(***************************************************************************)
DPD_SAMPLE_ENABLE == 1
DPD_SAMPLE_DISABLE == 0
\* the values of the two-bit code field (bits 30 and 31) of a request word
IO_DPD_REQ_CODE_IDLE == 0
IO_DPD_REQ_CODE_OFF == 1
IO_DPD_REQ_CODE_ON == 2

\* a request word: the rail bits (0..29) that are set, and the code field
ReqWord(rails, code) == [rails |-> rails, code |-> code]

\* the registers after reset, with pclk at 408 MHz
RailReset ==
  [req |-> [r \in {"IO_DPD_REQ", "IO_DPD2_REQ"} |->
              ReqWord({}, IO_DPD_REQ_CODE_IDLE)],
   st |-> [r \in {"IO_DPD_STATUS", "IO_DPD2_STATUS"} |-> {}],
   sample |-> DPD_SAMPLE_DISABLE,
   tim |-> 0,
   rate |-> ToUL(408000000)]

\* *bit = id % 32: the remainder of the int division has the sign of id,
\* and is converted to unsigned int (2^32 - m for the remainder -m)
RailBit(id) ==
  IF id >= 0 \/ (0 - id) % 32 = 0
  THEN ToUL(IF id >= 0 THEN id % 32 ELSE 0)
  ELSE SubUL(UL(Half - 1, Half - 1), ToUL(((0 - id) % 32) - 1))

\* the bits 30 and 31 of a request word, the code field
CodeBits == {30, 31}

\* mask = 1 << bit: the values mask can take.  A shift of an int by 32 or
\* more is undefined; where the caller goes on, the shift has yielded 0 or
\* has used the low five bits of the count.
RailMasks(bit) ==
  IF GeqUL(ToUL(31), bit) THEN {BIT(FromUL(bit))}
                          ELSE {{}, BIT(bit.lo % 32)}

\* mask = 1 << bit may stop the caller
RailShiftUndefined(bit) == ~GeqUL(ToUL(31), bit)

\* a validation that lets every id through
RailInvalid_Unchecked(id) == FALSE

\* id > 63 || *bit == 30 || *bit == 31
RailInvalid(id) ==
  id > 63 \/ RailBit(id) = ToUL(30) \/ RailBit(id) = ToUL(31)

\* if (id < 32) { IO_DPD_STATUS, IO_DPD_REQ } else { IO_DPD2_STATUS, IO_DPD2_REQ }
RailRequest(id) == IF id < 32 THEN "IO_DPD_REQ" ELSE "IO_DPD2_REQ"
RailStatus(id) == IF id < 32 THEN "IO_DPD_STATUS" ELSE "IO_DPD2_STATUS"

\* the code tegra_io_rail_power_on / tegra_io_rail_power_off put in the word
RailCode(op) == IF op = "rail_on" THEN IO_DPD_REQ_CODE_OFF
                                  ELSE IO_DPD_REQ_CODE_ON

\* a request that forgets the rail bits it read
RailWord_Only(value, mask, code) == ReqWord(mask \ CodeBits, code)

\* value |= mask; value &= ~IO_DPD_REQ_CODE_MASK; value |= code
RailWord(value, mask, code) ==
  ReqWord((value.rails \cup mask) \ CodeBits, code)

\* the value of (status & mask) the poll waits for: 0 after power_on, mask
\* after power_off
RailWanted(op) == op = "rail_off"

\* a top-level call of tegra_io_rail_power_on / tegra_io_rail_power_off
BeginRail(t, op, id) ==
  /\ t \in callers
  /\ Idle(t)
  /\ prev' = IF pc[t] = "done" THEN Summary(loc[t]) ELSE prev
  /\ pc' = [pc EXCEPT ![t] = "rail"]
  /\ stk' = [stk EXCEPT ![t] = <<"done">>]
  /\ loc' = [loc EXCEPT ![t] = [NoLoc EXCEPT !.op = op, !.id = id]]
  /\ log' = [log EXCEPT ![t] = <<>>]

\* *bit = id % 32; if (id > 63 || *bit == 30 || *bit == 31) return -EINVAL;
RailCheck(t) ==
  /\ pc[t] = "rail"
  /\ IF RailInvalid(loc[t].id)
     THEN /\ Return(t, -EINVAL, loc[t])
          /\ Note(t, Ev(loc[t].op, loc[t].id, -EINVAL))
     ELSE /\ Goto(t, "rail_clk")
          /\ UNCHANGED <<stk, loc, log>>
  /\ UNCHANGED <<faults, cfgVars, regVars, pmcHw, mcHw, extHw, locks, hist>>

\* clk = clk_get_sys(NULL, "pclk"); if (IS_ERR(clk)) return PTR_ERR(clk);
\* rate = clk_get_rate(clk); clk_put(clk);
RailClk(t) ==
  /\ pc[t] = "rail_clk"
  /\ \/ /\ Fault
        /\ Return(t, ExtErr.clk, loc[t])
        /\ Note(t, Ev(loc[t].op, loc[t].id, ExtErr.clk))
     \/ /\ Goto(t, "rail_sample")
        /\ UNCHANGED <<faults, stk, loc, log>>
  /\ UNCHANGED <<cfgVars, regVars, pmcHw, mcHw, extHw, locks, hist>>

\* tegra_pmc_writel(DPD_SAMPLE_ENABLE, DPD_SAMPLE);
RailSample(t) ==
  /\ pc[t] = "rail_sample"
  /\ rail' = [rail EXCEPT !.sample = DPD_SAMPLE_ENABLE]
  /\ Note(t, Ev("DPD_SAMPLE", DPD_SAMPLE_ENABLE, 0))
  /\ Goto(t, "rail_tim")
  /\ UNCHANGED <<faults, cfgVars, regVars, status, toggle, mcHw, extHw, locks,
                 stk, loc, hist>>

\* value = DIV_ROUND_UP(1000000000, rate); value = DIV_ROUND_UP(200, value);
\* tegra_pmc_writel(value, SEL_DPD_TIM);
\* A division by zero (rate 0, or a first quotient of 0 after the sum has
\* wrapped) is undefined: the caller stops, or the division yields 0.
RailTim(t) ==
  /\ pc[t] = "rail_tim"
  /\ LET ns == IF rail.rate = ToUL(0) THEN ToUL(0)
               ELSE DIV_ROUND_UP(ToUL(1000000000), rail.rate)
         undef == rail.rate = ToUL(0) \/ ns = ToUL(0)
         value == IF undef THEN 0 ELSE FromUL(DIV_ROUND_UP(ToUL(200), ns))
     IN \/ /\ undef
           /\ Goto(t, "crashed")
           /\ UNCHANGED <<rail, log>>
        \/ /\ rail' = [rail EXCEPT !.tim = value]
           /\ Note(t, Ev("SEL_DPD_TIM", value, 0))
           /\ Goto(t, "rail_req_read")
  /\ UNCHANGED <<faults, cfgVars, regVars, status, toggle, mcHw, extHw, locks,
                 stk, loc, hist>>

\* mask = 1 << bit; value = tegra_pmc_readl(request);
RailReqRead(t) ==
  /\ pc[t] = "rail_req_read"
  /\ \/ /\ RailShiftUndefined(RailBit(loc[t].id))
        /\ Goto(t, "crashed")
        /\ UNCHANGED loc
     \/ \E mask \in RailMasks(RailBit(loc[t].id)) :
          /\ loc' = [loc EXCEPT
                       ![t].rval = rail.req[RailRequest(loc[t].id)],
                       ![t].mask = mask]
          /\ Goto(t, "rail_req_write")
  /\ UNCHANGED <<faults, cfgVars, regVars, pmcHw, mcHw, extHw, locks, stk, log,
                 hist>>

\* value |= mask; value &= ~IO_DPD_REQ_CODE_MASK; value |= IO_DPD_REQ_CODE_x;
\* tegra_pmc_writel(value, request);  timeout = jiffies + 250 ms
RailReqWrite(t) ==
  /\ pc[t] = "rail_req_write"
  /\ LET value == RailWord(loc[t].rval, loc[t].mask,
                           RailCode(loc[t].op))
     IN /\ rail' = [rail EXCEPT !.req[RailRequest(loc[t].id)] = value]
        /\ Note(t, Ev(RailRequest(loc[t].id), value, 0))
  /\ loc' = [loc EXCEPT ![t].left = RailTimeoutTicks]
  /\ Goto(t, "rail_cond")
  /\ UNCHANGED <<faults, cfgVars, regVars, status, toggle, mcHw, extHw, locks,
                 stk, hist>>

\* tegra_io_rail_poll: while (time_after(timeout, jiffies)) ...
\* return -ETIMEDOUT;
RailCond(t) ==
  /\ pc[t] = "rail_cond"
  /\ IF TimeLeft(loc[t].left)
     THEN /\ Goto(t, "rail_poll")
          /\ UNCHANGED loc
     ELSE /\ Goto(t, "rail_polled")
          /\ loc' = [loc EXCEPT ![t].err = -ETIMEDOUT]
  /\ UNCHANGED <<faults, cfgVars, regVars, pmcHw, mcHw, extHw, locks, stk, log,
                 hist>>

\* (value & mask) == val
RailPollHit(st, mask, wanted) ==
  (st \cap mask) = (IF wanted THEN mask ELSE {})

\* value = tegra_pmc_readl(offset); if ((value & mask) == val) return 0;
\* usleep_range(250, 1000);
RailPoll(t) ==
  /\ pc[t] = "rail_poll"
  /\ IF RailPollHit(rail.st[RailStatus(loc[t].id)], loc[t].mask,
                    RailWanted(loc[t].op))
     THEN /\ Goto(t, "rail_polled")
          /\ loc' = [loc EXCEPT ![t].err = 0, ![t].reached = TRUE]
     ELSE /\ Goto(t, "rail_cond")
          /\ UNCHANGED loc
  /\ UNCHANGED <<faults, cfgVars, regVars, pmcHw, mcHw, extHw, locks, stk, log,
                 hist>>

\* a result test that takes every result for a success
RailFailed_Never(err) == FALSE

\* err < 0
RailFailed(err) == err < 0

\* err = tegra_io_rail_poll(...); if (err < 0) return err;
RailPolled(t) ==
  /\ pc[t] = "rail_polled"
  /\ IF RailFailed(loc[t].err)
     THEN /\ Return(t, loc[t].err, loc[t])
          /\ Note(t, Ev(loc[t].op, loc[t].id, loc[t].err))
     ELSE /\ Goto(t, "rail_unprep")
          /\ UNCHANGED <<stk, loc, log>>
  /\ UNCHANGED <<faults, cfgVars, regVars, pmcHw, mcHw, extHw, locks, hist>>

\* tegra_io_rail_unprepare(): tegra_pmc_writel(DPD_SAMPLE_DISABLE, DPD_SAMPLE);
\* return 0;
RailUnprepare(t) ==
  /\ pc[t] = "rail_unprep"
  /\ rail' = [rail EXCEPT !.sample = DPD_SAMPLE_DISABLE]
  /\ Return(t, 0, loc[t])
  /\ log' = [log EXCEPT ![t] =
               @ \o <<Ev("DPD_SAMPLE", DPD_SAMPLE_DISABLE, 0),
                      Ev(loc[t].op, loc[t].id, 0)>>]
  /\ UNCHANGED <<faults, cfgVars, regVars, status, toggle, mcHw, extHw, locks,
                 hist>>

tegra_io_rail_power(t) ==
  \/ RailCheck(t)
  \/ RailClk(t)
  \/ RailSample(t)
  \/ RailTim(t)
  \/ RailReqRead(t)
  \/ RailReqWrite(t)
  \/ RailCond(t)
  \/ RailPoll(t)
  \/ RailPolled(t)
  \/ RailUnprepare(t)

\* the pads follow a request: the rails named in a request word enter deep
\* power down (status bit set) on code ON and leave it on code OFF
HwDpd ==
  \E r \in {"IO_DPD_REQ", "IO_DPD2_REQ"} :
    LET s == IF r = "IO_DPD_REQ" THEN "IO_DPD_STATUS" ELSE "IO_DPD2_STATUS"
        new == IF rail.req[r].code = IO_DPD_REQ_CODE_ON
               THEN rail.st[s] \cup rail.req[r].rails
               ELSE IF rail.req[r].code = IO_DPD_REQ_CODE_OFF
                    THEN rail.st[s] \ rail.req[r].rails
                    ELSE rail.st[s]
    IN /\ new # rail.st[s]
       /\ rail' = [rail EXCEPT !.st[s] = new]
       /\ UNCHANGED <<faults, cfgVars, regVars, status, toggle, mcHw, extHw,
                      locks, thr, hist>>

(***************************************************************************)
(* Initial states.                                                         *)
(***************************************************************************)
\* INIT_LIST_HEAD(&pmc->powergate_list): nothing is registered
NoDomains ==
  [nodes |-> <<>>, list |-> <<>>, named |-> {}, links |-> {},
   provider |-> FALSE]

\* the hardware and the callers, whatever the chip variant and the device
\* tree
InitState ==
  /\ genpd = [d \in DomNames |-> "none"]
  /\ vdd = [d \in DomNames |-> "null"]
  /\ regCnt = [d \in DomNames |-> 0]
  /\ toggle = NoCmd
  /\ pmcLock = NoOwner
  /\ mcLock = NoOwner
  /\ clkCnt = [c \in Clocks |-> 0]
  /\ rstLine = [r \in Resets |-> FALSE]
  /\ pc = [t \in Threads |-> "idle"]
  /\ stk = [t \in Threads |-> <<>>]
  /\ loc = [t \in Threads |-> NoLoc]
  /\ log = [t \in Threads |-> <<>>]
  /\ prev = NoPrev
  /\ disturbed = FALSE

InitHw ==
  /\ soc \in tegra_pmc_match
  /\ InitState

InitBase ==
  /\ InitHw
  /\ pd = NoDomains

\* the I/O rail registers are as after reset
InitCommon ==
  /\ InitBase
  /\ rail = RailReset

(***************************************************************************)
(* SpecSet: one caller drives the power-gate primitive of the internally   *)
(* gated domains.                                                          *)
(***************************************************************************)
GatedDoms == {d \in DomNames : ~Descr[d].is_vdd}

InitSet ==
  /\ InitCommon
  /\ callers = {1}
  /\ node = "none"
  /\ faults = 0
  /\ doms \in {{"venc", "pcie"}}
  /\ status \in SUBSET {Descr[d].id : d \in doms}
  /\ mcCtrl = {}
  /\ mcStat = {}
  /\ glitch = 0

StartPgSet(t) ==
  \E d \in doms, s \in BOOLEAN :
    /\ Begin(t, "pgset", d, s, NoHotreset, "pgset")
    /\ UNCHANGED <<faults, cfgVars, regVars, pmcHw, mcHw, extHw, locks,
                   disturbed>>

NextSet ==
  \/ \E t \in Threads : StartPgSet(t)
  \/ \E t \in Threads : PgSetLock(t)
  \/ \E t \in Threads : PgSetRead(t)
  \/ \E t \in Threads : PgSetWrite(t)
  \/ \E t \in Threads : PgSetCond(t)
  \/ \E t \in Threads : PgSetPoll(t)
  \/ \E t \in Threads : PgSetUnlock(t)
  \/ HwToggle
  \/ Tick

SpecSet == InitSet /\ [][NextSet]_vars

(***************************************************************************)
(* SpecFlush: one caller drives the hot-reset protocol; the status         *)
(* register may change value MaxGlitch times.  SpecFlushFair adds that     *)
(* the caller keeps running.                                               *)
(***************************************************************************)
InitFlush ==
  /\ InitCommon
  /\ callers = {1}
  /\ node = "none"
  /\ faults = 0
  /\ doms = {}
  /\ status = {}
  /\ mcCtrl = {}
  /\ mcStat = {}
  /\ glitch = MaxGlitch

\* the swgroups of the callers: two with a hot-reset entry, one without
FlushGroups == {"VI", "ISP", "PTC"}

StartFlush(t) ==
  \E sg \in FlushGroups, mc \in BOOLEAN :
    /\ BeginMc(t, "flush", mc, tegra114_mc_hotreset(sg), "flush")
    /\ UNCHANGED <<faults, cfgVars, regVars, pmcHw, mcHw, extHw, locks,
                   disturbed>>

StartFlushDone(t) ==
  \E sg \in FlushGroups, mc \in BOOLEAN :
    /\ BeginMc(t, "flush_done", mc, tegra114_mc_hotreset(sg), "flush_done")
    /\ UNCHANGED <<faults, cfgVars, regVars, pmcHw, mcHw, extHw, locks,
                   disturbed>>

McStep(t) ==
  \/ FlushCheck(t)
  \/ FlushLock(t)
  \/ FlushCtrlRead(t)
  \/ FlushCtrlWrite(t)
  \/ FlushDoneCtrlWrite(t)
  \/ FlushCtrlBack(t)
  \/ FlushDelay(t)
  \/ StableFirst(t)
  \/ StableNext(t)
  \/ FlushWhile(t)
  \/ FlushUnlock(t)

NextFlush ==
  \/ \E t \in Threads : StartFlush(t)
  \/ \E t \in Threads : StartFlushDone(t)
  \/ \E t \in Threads : FlushCheck(t)
  \/ \E t \in Threads : FlushLock(t)
  \/ \E t \in Threads : FlushCtrlRead(t)
  \/ \E t \in Threads : FlushCtrlWrite(t)
  \/ \E t \in Threads : FlushDoneCtrlWrite(t)
  \/ \E t \in Threads : FlushCtrlBack(t)
  \/ \E t \in Threads : FlushDelay(t)
  \/ \E t \in Threads : StableFirst(t)
  \/ \E t \in Threads : StableNext(t)
  \/ \E t \in Threads : FlushWhile(t)
  \/ \E t \in Threads : FlushUnlock(t)
  \/ HwMcStat

SpecFlush == InitFlush /\ [][NextFlush]_vars

SpecFlushFair == SpecFlush /\ \A t \in Threads : WF_vars(McStep(t))

(***************************************************************************)
(* Spec: one caller registers the node of the device tree and then powers  *)
(* the domain on and off and asks whether it is powered; the clock, reset  *)
(* and regulator frameworks may fail MaxFaults times; the memory           *)
(* controller acknowledges flush requests.                                 *)
(***************************************************************************)
\* the domains of Spec
SeqDoms == DomNames \ {"mpe", "dis"}

Init ==
  /\ InitCommon
  /\ callers = {1}
  /\ node \in SeqDoms
  /\ faults = MaxFaults
  /\ doms = {}
  /\ status \in SUBSET {Descr[node].id}
  /\ mcCtrl = {}
  /\ mcStat = {}
  /\ glitch = 0

\* the enable counts stay within the model's range during one call
Room(d) ==
  /\ \A c \in Range(Descr[d].clk) : clkCnt[c] < MaxClkCnt
  /\ regCnt[d] < MaxRegCnt

StartRegister(t) ==
  /\ node \notin doms
  /\ Begin(t, "register", node, FALSE, NoHotreset, "reg")
  /\ UNCHANGED <<faults, cfgVars, regVars, pmcHw, mcHw, extHw, locks,
                 disturbed>>

StartPowerOn(t) ==
  \E d \in doms :
    /\ Room(d)
    /\ Begin(t, "power_on", d, FALSE, NoHotreset, "pon")
    /\ UNCHANGED <<faults, cfgVars, regVars, pmcHw, mcHw, extHw, locks,
                   disturbed>>

StartPowerOff(t) ==
  \E d \in doms :
    /\ Room(d)
    /\ Begin(t, "power_off", d, FALSE, NoHotreset, "poff")
    /\ UNCHANGED <<faults, cfgVars, regVars, pmcHw, mcHw, extHw, locks,
                   disturbed>>

StartIsPowered(t) ==
  \E d \in doms, entry \in {"ispw", "ispw_id"} :
    /\ Begin(t, "is_powered", d, FALSE, NoHotreset, entry)
    /\ UNCHANGED <<faults, cfgVars, regVars, pmcHw, mcHw, extHw, locks,
                   disturbed>>

\* the memory controller acknowledges: the status follows the control bits
HwMcAck ==
  /\ mcStat # mcCtrl
  /\ mcStat' = mcCtrl
  /\ UNCHANGED <<faults, cfgVars, regVars, pmcHw, mcCtrl, glitch, extHw,
                 locks, thr, hist>>

Next ==
  \/ \E t \in Threads : StartRegister(t)
  \/ \E t \in Threads : StartPowerOn(t)
  \/ \E t \in Threads : StartPowerOff(t)
  \/ \E t \in Threads : StartIsPowered(t)
  \/ \E t \in Threads : tegra_pmc_powergate_init_powerdomain(t)
  \/ \E t \in Threads : tegra_pmc_powergate_power_on(t)
  \/ \E t \in Threads : tegra_pmc_powergate_power_off(t)
  \/ \E t \in Threads : IsPowered(t)
  \/ \E t \in Threads : IsPoweredId(t)
  \/ \E t \in Threads : GetRegulator(t)
  \/ \E t \in Threads : RemoveClamping(t)
  \/ \E t \in Threads : EnableClocks(t)
  \/ \E t \in Threads : EnableClocksOut(t)
  \/ \E t \in Threads : DisableClocks(t)
  \/ \E t \in Threads : ResetLoop(t)
  \/ \E t \in Threads : McFlushLoop(t)
  \/ \E t \in Threads : McFlushErr(t)
  \/ \E t \in Threads : McStep(t)
  \/ \E t \in Threads : tegra_pmc_powergate_set(t)
  \/ HwToggle
  \/ Tick
  \/ HwMcAck

Spec == Init /\ [][Next]_vars

(***************************************************************************)
(* SpecConc: two callers contend for one lock.  With a domain registered   *)
(* both drive the power-gate primitive; with none registered both drive    *)
(* the hot-reset protocol (the two share no register and no lock, so their *)
(* interleavings are explored apart).  The PMC completes toggles and the   *)
(* memory controller acknowledges flush requests.                          *)
(***************************************************************************)
InitConc ==
  /\ InitCommon
  /\ callers = Threads
  /\ node = "none"
  /\ faults = 0
  /\ doms \in {{"venc"}, {}}
  /\ status \in SUBSET {Descr[d].id : d \in doms}
  /\ mcCtrl = {}
  /\ mcStat = {}
  /\ glitch = 0

\* each caller flushes the clients of a swgroup of its own
ConcGroup == <<"VI", "ISP">>

ConcFlush(t) ==
  /\ doms = {}
  /\ BeginMc(t, "flush", TRUE, tegra114_mc_hotreset(ConcGroup[t]), "flush")
  /\ UNCHANGED <<faults, cfgVars, regVars, pmcHw, mcHw, extHw, locks,
                 disturbed>>

ConcFlushDone(t) ==
  /\ doms = {}
  /\ BeginMc(t, "flush_done", TRUE, tegra114_mc_hotreset(ConcGroup[t]),
             "flush_done")
  /\ UNCHANGED <<faults, cfgVars, regVars, pmcHw, mcHw, extHw, locks,
                 disturbed>>

NextConc ==
  \/ \E t \in Threads : StartPgSet(t)
  \/ \E t \in Threads : ConcFlush(t)
  \/ \E t \in Threads : ConcFlushDone(t)
  \/ \E t \in Threads : tegra_pmc_powergate_set(t)
  \/ \E t \in Threads : McStep(t)
  \/ HwToggle
  \/ Tick
  \/ HwMcAck

SpecConc == InitConc /\ [][NextConc]_vars

(***************************************************************************)
(* SpecRail: one caller powers I/O rails on and off; pclk runs at one of   *)
(* RailRates, the lookup of pclk may fail MaxFaults times, the pads follow *)
(* the requests, and time passes.                                          *)
(***************************************************************************)
\* rates of pclk: 1 Hz, 408 MHz, 1 GHz, 2^32 - 10^9, 2^32 - 10^9 + 1 and
\* 4 GHz
RailRates == {ToUL(1), ToUL(408000000), ToUL(1000000000),
              UL(50277, 13824), UL(50277, 13825), UL(61035, 10240)}

\* rail ids: rails of both banks, the reserved bit positions, ids past the
\* second bank
RailIds == {0, 30, 31, 33, 62, 63, 64, 95}

\* rails no caller of the model names: their request bits are set from the
\* start
OtherRails == {5}

InitRail ==
  /\ InitBase
  /\ soc = tegra124_pmc_soc
  /\ callers = {1}
  /\ node = "none"
  /\ faults = MaxFaults
  /\ doms = {}
  /\ status = {}
  /\ mcCtrl = {}
  /\ mcStat = {}
  /\ glitch = 0
  /\ \E r \in RailRates :
       rail = [RailReset EXCEPT !.rate = r,
                                !.req["IO_DPD_REQ"] =
                                  ReqWord(OtherRails, IO_DPD_REQ_CODE_IDLE)]

StartRail(t) ==
  \E id \in RailIds, op \in {"rail_on", "rail_off"} :
    /\ BeginRail(t, op, id)
    /\ UNCHANGED <<faults, cfgVars, regVars, pmcHw, mcHw, extHw, locks,
                   disturbed>>

NextRail ==
  \/ \E t \in Threads : StartRail(t)
  \/ \E t \in Threads : tegra_io_rail_power(t)
  \/ HwDpd
  \/ Tick

SpecRail == InitRail /\ [][NextRail]_vars

(***************************************************************************)
(* SpecPoll: one caller drives the power-gate primitive and the I/O rail   *)
(* functions; the PMC may complete a command or not, the pads may follow a *)
(* request or not.  SpecPollFair adds that a polling caller keeps running   *)
(* and that jiffies keeps advancing while a poll is in progress.           *)
(***************************************************************************)
\* rail ids of the polls: a rail of the second bank and a reserved bit
\* position
PollRailIds == {33, 30}

InitPoll ==
  /\ InitBase
  /\ soc = tegra124_pmc_soc
  /\ callers = {1}
  /\ node = "none"
  /\ faults = MaxFaults
  /\ doms = {"venc"}
  /\ status \in SUBSET {TEGRA_POWERGATE_VENC}
  /\ mcCtrl = {}
  /\ mcStat = {}
  /\ glitch = 0
  /\ rail = [RailReset EXCEPT !.rate = ToUL(408000000)]

StartPollRail(t) ==
  \E id \in PollRailIds, op \in {"rail_on", "rail_off"} :
    /\ BeginRail(t, op, id)
    /\ UNCHANGED <<faults, cfgVars, regVars, pmcHw, mcHw, extHw, locks,
                   disturbed>>

NextPoll ==
  \/ \E t \in Threads : StartPgSet(t)
  \/ \E t \in Threads : StartPollRail(t)
  \/ \E t \in Threads : tegra_pmc_powergate_set(t)
  \/ \E t \in Threads : tegra_io_rail_power(t)
  \/ HwToggle
  \/ HwDpd
  \/ Tick

SpecPoll == InitPoll /\ [][NextPoll]_vars

\* a step of a caller inside one of the two polling loops
PollStep ==
  \E t \in Threads :
    PgSetCond(t) \/ PgSetPoll(t) \/ RailCond(t) \/ RailPoll(t)

SpecPollFair == SpecPoll /\ WF_vars(Tick) /\ WF_vars(PollStep)

(***************************************************************************)
(* SpecCpu: one caller uses the three CPU hotplug functions with indices   *)
(* inside and outside the table of the chip variant; the PMC completes     *)
(* toggle commands.                                                        *)
(***************************************************************************)
\* the indices passed: one below the table, the table of four, one past it
CpuIndices == {-1, 0, 1, 2, 3, 4}

InitCpu ==
  /\ InitCommon
  /\ callers = {1}
  /\ node = "none"
  /\ faults = 0
  /\ doms = {}
  /\ status \in SUBSET {TEGRA_POWERGATE_CPU, TEGRA_POWERGATE_CPU0,
                        TEGRA_POWERGATE_CPU1}
  /\ mcCtrl = {}
  /\ mcStat = {}
  /\ glitch = 0

StartCpu(t) ==
  \E cpuid \in CpuIndices, entry \in {"cpu_ispw", "cpu_on", "cpu_clamp"} :
    /\ BeginCpu(t, entry, cpuid, entry)
    /\ UNCHANGED <<faults, cfgVars, regVars, pmcHw, mcHw, extHw, locks,
                   disturbed>>

\* the PMC completes the toggle command of tegra_powergate_set
HwCpuToggle ==
  /\ toggle # NoCmd
  /\ status' = IF toggle \in status THEN status \ {toggle}
                                    ELSE status \cup {toggle}
  /\ toggle' = NoCmd
  /\ UNCHANGED <<faults, cfgVars, regVars, rail, mcHw, extHw, locks, thr,
                 hist>>

NextCpu ==
  \/ \E t \in Threads : StartCpu(t)
  \/ \E t \in Threads : CpuIsPowered(t)
  \/ \E t \in Threads : CpuPowerOn(t)
  \/ \E t \in Threads : CpuRemoveClamping(t)
  \/ \E t \in Threads : tegra_powergate_set(t)
  \/ \E t \in Threads : CpuRet(t)
  \/ HwCpuToggle

SpecCpu == InitCpu /\ [][NextCpu]_vars

(***************************************************************************)
(* tegra_powergate_init: the loop of tegra_pmc_powergate_init_powerdomain  *)
(* over the nodes of the tree, tegra_pmc_powergate_init_subdomain, the     *)
(* genpd provider, and tegra_powergate_of_xlate.                           *)
(***************************************************************************)
\* a node of the tree: its name and the node its "depend-on" names
Node(n, dep) == [name |-> n, dep |-> dep]

\* of_parse_phandle(powergate->of_node, "depend-on", 0) of a listed domain
DependOn(nodes, g) ==
  LET k == CHOOSE k \in DOMAIN nodes : nodes[k].name = g IN nodes[k].dep

\* the errors of the early returns of the loop body: a property that cannot
\* be read, devm_kzalloc
PropErr == {-EINVAL, -ENOMEM}

\* a dependency that is taken to be registered whatever the list holds
ParentFound_Always(list, pdn) == TRUE

\* list_for_each_entry(temp, ...) if (temp->of_node == pdn) parent = temp
ParentFound(list, pdn) == pdn \in Range(list)

\* for_each_compatible_node(np, NULL, "nvidia,power-domains"): the next
\* node, or the end of tegra_pmc_powergate_init_powerdomain with 0
InitNode(t) ==
  /\ pc[t] = "init_pd"
  /\ IF loc[t].np >= Len(pd.nodes)
     THEN /\ Goto(t, "init_sub")
          /\ loc' = [loc EXCEPT ![t].np = 0, ![t].err = 0]
          /\ UNCHANGED <<faults, stk, log>>
     ELSE \/ /\ Call(t, "reg", "init_pd_ret")
             /\ loc' = [loc EXCEPT ![t].dom = pd.nodes[loc[t].np + 1].name]
             /\ UNCHANGED <<faults, log>>
          \/ \E e \in PropErr :
               /\ Fault
               /\ Note(t, Ev("node", pd.nodes[loc[t].np + 1].name, e))
               /\ Return(t, e, loc[t])
  /\ UNCHANGED <<cfgVars, regVars, pmcHw, mcHw, extHw, locks, hist>>

\* the body of the loop is over: its "return err" ends
\* tegra_pmc_powergate_init_powerdomain, and tegra_powergate_init with it
\* (if (err) goto out); otherwise the next node
InitNodeRet(t) ==
  /\ pc[t] = "init_pd_ret"
  /\ IF loc[t].err # 0
     THEN Return(t, loc[t].err, loc[t])
     ELSE /\ Goto(t, "init_pd")
          /\ loc' = [loc EXCEPT ![t].np = @ + 1]
          /\ UNCHANGED stk
  /\ UNCHANGED <<faults, cfgVars, regVars, pmcHw, mcHw, extHw, locks, log,
                 hist>>

\* tegra_pmc_powergate_init_subdomain: one entry of the list
InitSubdomain(t) ==
  /\ pc[t] = "init_sub"
  /\ IF loc[t].np >= Len(pd.list)
     THEN /\ Goto(t, "init_prov")
          /\ UNCHANGED <<faults, pd, stk, loc, log>>
     ELSE LET g == pd.list[loc[t].np + 1]
              pdn == DependOn(pd.nodes, g)
          IN IF pdn = "none"
             THEN /\ loc' = [loc EXCEPT ![t].np = @ + 1]
                  /\ UNCHANGED <<faults, pd, pc, stk, log>>
             ELSE IF ~ParentFound(pd.list, pdn)
             THEN /\ Note(t, Ev("parent", g, -EINVAL))
                  /\ Return(t, -EINVAL, loc[t])
                  /\ UNCHANGED <<faults, pd>>
             ELSE \/ /\ pd' = [pd EXCEPT !.links = @ \cup {<<pdn, g>>}]
                     /\ Note(t, Ev("add_subdomain", g, 0))
                     /\ loc' = [loc EXCEPT ![t].np = @ + 1]
                     /\ UNCHANGED <<faults, pc, stk>>
                  \/ /\ Fault
                     /\ Note(t, Ev("add_subdomain", g, -ENOMEM))
                     /\ Return(t, -ENOMEM, loc[t])
                     /\ UNCHANGED pd
  /\ UNCHANGED <<soc, doms, callers, node, regVars, pmcHw, mcHw, extHw,
                 locks, hist>>

\* err = __of_genpd_add_provider(np, tegra_powergate_of_xlate, pmc)
InitProvider(t) ==
  /\ pc[t] = "init_prov"
  /\ \/ /\ pd' = [pd EXCEPT !.provider = TRUE]
        /\ Return(t, 0, loc[t])
        /\ UNCHANGED faults
     \/ /\ Fault
        /\ Return(t, -ENOMEM, loc[t])
        /\ UNCHANGED pd
  /\ UNCHANGED <<soc, doms, callers, node, regVars, pmcHw, mcHw, extHw,
                 locks, log, hist>>

tegra_powergate_init(t) ==
  \/ InitNode(t)
  \/ InitNodeRet(t)
  \/ InitSubdomain(t)
  \/ InitProvider(t)

\* the answer of tegra_powergate_of_xlate when nothing matches
NotFound == "ENOENT"

\* a comparison that accepts every domain
XlateMatch_Any(pid, id) == TRUE

\* if (powergate->id == args->args[0])
XlateMatch(pid, id) == pid = id

\* list_for_each_entry over what is left of the list: entries without a
\* base.name are passed over, the first match is returned
RECURSIVE XlateWalk(_, _, _)
XlateWalk(list, named, id) ==
  IF list = <<>> THEN NotFound
  ELSE IF Head(list) \notin named THEN XlateWalk(Tail(list), named, id)
  ELSE IF XlateMatch(Descr[Head(list)].id, id) THEN Head(list)
  ELSE XlateWalk(Tail(list), named, id)

tegra_powergate_of_xlate(t) ==
  /\ pc[t] = "xlate"
  /\ Return(t, 0, [loc[t] EXCEPT
                     !.res = XlateWalk(pd.list, pd.named, loc[t].id)])
  /\ UNCHANGED <<faults, cfgVars, regVars, pmcHw, mcHw, extHw, locks, log,
                 hist>>

(***************************************************************************)
(* SpecInit: tegra_powergate_init on a device tree of two nodes, then      *)
(* look-ups through the provider.                                          *)
(***************************************************************************)
\* the trees: a dependency on a later node, one on an earlier node, one on
\* a node that is no power domain, and an external-rail domain with an
\* always-on sub-domain
InitTrees ==
  {<<Node("venc", "heg"), Node("heg", "none")>>,
   <<Node("heg", "none"), Node("pcie", "heg")>>,
   <<Node("pcie", "vdec"), Node("heg", "none")>>,
   <<Node("gpu", "none"), Node("iram", "gpu")>>}

NodeNames(nodes) == {nodes[k].name : k \in DOMAIN nodes}

\* the ids asked of the provider
LookupIds ==
  {TEGRA_POWERGATE_VENC, TEGRA_POWERGATE_HEG, TEGRA_POWERGATE_PCIE,
   TEGRA_POWERGATE_VDEC}

InitInit ==
  /\ InitHw
  /\ rail = RailReset
  /\ soc \in {tegra124_pmc_soc, tegra30_pmc_soc}
  /\ callers = {1}
  /\ node = "none"
  /\ faults = MaxFaults
  /\ doms = {}
  /\ \E tree \in InitTrees :
       /\ pd = [NoDomains EXCEPT !.nodes = tree]
       /\ status \in SUBSET {Descr[d].id : d \in NodeNames(tree)}
  /\ mcCtrl = {}
  /\ mcStat = {}
  /\ glitch = 0

\* the probe calls tegra_powergate_init once
StartInit(t) ==
  /\ pc[t] = "idle"
  /\ Begin(t, "init", "none", FALSE, NoHotreset, "init_pd")
  /\ UNCHANGED <<faults, cfgVars, regVars, pmcHw, mcHw, extHw, locks,
                 disturbed>>

\* genpd asks the provider for the domain of a phandle argument
StartLookup(t) ==
  \E id \in LookupIds :
    /\ pd.provider
    /\ t \in callers
    /\ Idle(t)
    /\ prev' = IF pc[t] = "done" THEN Summary(loc[t]) ELSE prev
    /\ pc' = [pc EXCEPT ![t] = "xlate"]
    /\ stk' = [stk EXCEPT ![t] = <<"done">>]
    /\ loc' = [loc EXCEPT ![t] = [NoLoc EXCEPT !.op = "lookup", !.id = id]]
    /\ log' = [log EXCEPT ![t] = <<>>]
    /\ UNCHANGED <<faults, cfgVars, regVars, pmcHw, mcHw, extHw, locks,
                   disturbed>>

NextInit ==
  \/ \E t \in Threads : StartInit(t)
  \/ \E t \in Threads : StartLookup(t)
  \/ \E t \in Threads : tegra_powergate_init(t)
  \/ \E t \in Threads : tegra_pmc_powergate_init_powerdomain(t)
  \/ \E t \in Threads : tegra_powergate_of_xlate(t)
  \/ \E t \in Threads : tegra_pmc_powergate_power_off(t)
  \/ \E t \in Threads : IsPowered(t)
  \/ \E t \in Threads : GetRegulator(t)
  \/ \E t \in Threads : EnableClocks(t)
  \/ \E t \in Threads : EnableClocksOut(t)
  \/ \E t \in Threads : DisableClocks(t)
  \/ \E t \in Threads : ResetLoop(t)
  \/ \E t \in Threads : McFlushLoop(t)
  \/ \E t \in Threads : McFlushErr(t)
  \/ \E t \in Threads : FlushCheck(t)
  \/ \E t \in Threads : FlushLock(t)
  \/ \E t \in Threads : FlushCtrlRead(t)
  \/ \E t \in Threads : FlushCtrlWrite(t)
  \/ \E t \in Threads : FlushCtrlBack(t)
  \/ \E t \in Threads : FlushDelay(t)
  \/ \E t \in Threads : StableFirst(t)
  \/ \E t \in Threads : StableNext(t)
  \/ \E t \in Threads : FlushWhile(t)
  \/ \E t \in Threads : FlushUnlock(t)
  \/ \E t \in Threads : tegra_pmc_powergate_set(t)
  \/ HwToggle
  \/ Tick
  \/ HwMcAck

SpecInit == InitInit /\ [][NextInit]_vars

(***************************************************************************)
(* SpecId: the exported tegra_powergate_is_powered(id) and                 *)
(* tegra_powergate_remove_clamping(id) with ids around the partition       *)
(* counts of the chip variants, before and after a variant is chosen, and  *)
(* the power-on of a domain whose id the variant has or has not.           *)
(***************************************************************************)
\* ids passed by the callers: negative, and on both sides of 7, 14, 23 and
\* 25 partitions
IdArgs == {-1, 0, 1, 6, 7, 13, 14, 22, 23, 24, 25}

\* the domains powered on: id 2, 7 and 24, and the external-rail domain
IdDoms == {"venc", "heg", "iram", "gpu"}

InitId ==
  /\ InitState
  /\ rail = RailReset
  /\ soc \in tegra_pmc_match \cup {NoSoc}
  /\ callers = {1}
  /\ node = "none"
  /\ faults = 0
  /\ pd = NoDomains
  /\ doms \in IF soc = NoSoc THEN {{}} ELSE {{d} : d \in IdDoms}
  /\ status \in SUBSET ({6} \cup {Descr[d].id : d \in doms})
  /\ mcCtrl = {}
  /\ mcStat = {}
  /\ glitch = 0

StartIdCall(t) ==
  \E id \in IdArgs, entry \in {"ispw_id", "clamp"} :
    /\ BeginCpu(t, entry, id, entry)
    /\ UNCHANGED <<faults, cfgVars, regVars, pmcHw, mcHw, extHw, locks,
                   disturbed>>

NextId ==
  \/ \E t \in Threads : StartIdCall(t)
  \/ \E t \in Threads : StartPowerOn(t)
  \/ \E t \in Threads : IsPoweredId(t)
  \/ \E t \in Threads : RemoveClamping(t)
  \/ \E t \in Threads : GetRegulator(t)
  \/ \E t \in Threads : tegra_pmc_powergate_power_on(t)
  \/ \E t \in Threads : EnableClocks(t)
  \/ \E t \in Threads : DisableClocks(t)
  \/ \E t \in Threads : ResetLoop(t)
  \/ \E t \in Threads : McFlushLoop(t)
  \/ \E t \in Threads : McFlushErr(t)
  \/ \E t \in Threads : FlushCheck(t)
  \/ \E t \in Threads : FlushLock(t)
  \/ \E t \in Threads : FlushCtrlRead(t)
  \/ \E t \in Threads : FlushDoneCtrlWrite(t)
  \/ \E t \in Threads : FlushCtrlBack(t)
  \/ \E t \in Threads : FlushUnlock(t)
  \/ \E t \in Threads : tegra_pmc_powergate_set(t)
  \/ HwToggle
  \/ Tick

SpecId == InitId /\ [][NextId]_vars

(***************************************************************************)
(* SpecGate: two callers and both power-gate primitives.  With the CPU1    *)
(* partition registered as a domain the callers power on CPU 1             *)
(* (tegra_powergate_set) and switch the domain (tegra_pmc_powergate_set);  *)
(* with no domain registered they flush and release client groups.         *)
(***************************************************************************)
\* the CPU whose partition is also a registered domain
GateCpu == {1}

InitGate ==
  /\ InitCommon
  /\ soc = tegra124_pmc_soc
  /\ callers = Threads
  /\ node = "none"
  /\ faults = 0
  /\ doms \in {{"cpu1"}, {}}
  /\ status \in SUBSET {Descr[d].id : d \in doms}
  /\ mcCtrl = {}
  /\ mcStat = {}
  /\ glitch = 0

\* the hotplug code powers on the CPU
GateCpuOn(t) ==
  \E cpuid \in GateCpu :
    /\ doms # {}
    /\ BeginCpu(t, "cpu_on", cpuid, "cpu_on")
    /\ UNCHANGED <<faults, cfgVars, regVars, pmcHw, mcHw, extHw, locks,
                   disturbed>>

\* each caller flushes or releases the clients of a swgroup of its own, or
\* passes no hot-reset descriptor
GateFlush(t) ==
  \E hot \in {tegra114_mc_hotreset(ConcGroup[t]), NoHotreset},
     op \in {"flush", "flush_done"} :
    /\ doms = {}
    /\ BeginMc(t, op, TRUE, hot, op)
    /\ UNCHANGED <<faults, cfgVars, regVars, pmcHw, mcHw, extHw, locks,
                   disturbed>>

NextGate ==
  \/ \E t \in Threads : GateCpuOn(t)
  \/ \E t \in Threads : StartPgSet(t)
  \/ \E t \in Threads : GateFlush(t)
  \/ \E t \in Threads : CpuPowerOn(t)
  \/ \E t \in Threads : tegra_powergate_set(t)
  \/ \E t \in Threads : CpuRet(t)
  \/ \E t \in Threads : tegra_pmc_powergate_set(t)
  \/ \E t \in Threads : McStep(t)
  \/ HwToggle
  \/ Tick
  \/ HwMcAck

SpecGate == InitGate /\ [][NextGate]_vars

(***************************************************************************)
(* SpecCpuPair: two callers each call tegra_pmc_cpu_power_on once, for     *)
(* CPU 1 or CPU 2, on a variant that has CPU partitions.                   *)
(***************************************************************************)
PairCpus == {1, 2}

InitCpuPair ==
  /\ InitCommon
  /\ soc \in {tegra30_pmc_soc, tegra114_pmc_soc, tegra124_pmc_soc}
  /\ callers = Threads
  /\ node = "none"
  /\ faults = 0
  /\ doms = {}
  /\ status \in SUBSET {TEGRA_POWERGATE_CPU1, TEGRA_POWERGATE_CPU2}
  /\ mcCtrl = {}
  /\ mcStat = {}
  /\ glitch = 0

StartCpuOnce(t) ==
  \E cpuid \in PairCpus :
    /\ pc[t] = "idle"
    /\ BeginCpu(t, "cpu_on", cpuid, "cpu_on")
    /\ UNCHANGED <<faults, cfgVars, regVars, pmcHw, mcHw, extHw, locks,
                   disturbed>>

NextCpuPair ==
  \/ \E t \in Threads : StartCpuOnce(t)
  \/ \E t \in Threads : CpuPowerOn(t)
  \/ \E t \in Threads : tegra_powergate_set(t)
  \/ \E t \in Threads : CpuRet(t)
  \/ HwCpuToggle

SpecCpuPair == InitCpuPair /\ [][NextCpuPair]_vars

(***************************************************************************)
(* SpecHot: one caller powers a registered domain on and off, on every     *)
(* variant: a domain with two memory client groups, one whose first group  *)
(* has no hot-reset descriptor, and the external-rail domain, which has no *)
(* group.  The clock, reset and regulator frameworks may fail MaxFaults    *)
(* times and the power gate may time out.                                  *)
(***************************************************************************)
HotDoms == {"venc", "heg", "gpu"}

InitHot ==
  /\ InitCommon
  /\ callers = {1}
  /\ node = "none"
  /\ faults = MaxFaults
  /\ doms \in {{d} : d \in HotDoms}
  /\ status \in SUBSET {Descr[d].id : d \in doms}
  /\ mcCtrl = {}
  /\ mcStat = {}
  /\ glitch = 0

NextHot ==
  \/ \E t \in Threads : StartPowerOn(t)
  \/ \E t \in Threads : StartPowerOff(t)
  \/ \E t \in Threads : tegra_pmc_powergate_power_on(t)
  \/ \E t \in Threads : tegra_pmc_powergate_power_off(t)
  \/ \E t \in Threads : GetRegulator(t)
  \/ \E t \in Threads : RemoveClamping(t)
  \/ \E t \in Threads : EnableClocks(t)
  \/ \E t \in Threads : EnableClocksOut(t)
  \/ \E t \in Threads : DisableClocks(t)
  \/ \E t \in Threads : ResetLoop(t)
  \/ \E t \in Threads : McFlushLoop(t)
  \/ \E t \in Threads : McFlushErr(t)
  \/ \E t \in Threads : McStep(t)
  \/ \E t \in Threads : tegra_pmc_powergate_set(t)
  \/ HwToggle
  \/ Tick
  \/ HwMcAck

SpecHot == InitHot /\ [][NextHot]_vars

(***************************************************************************)
(* SpecRailNeg: one caller passes negative rail ids, and rail 0, to the    *)
(* I/O rail functions; pclk runs at 408 MHz and its lookup may fail        *)
(* MaxFaults times.                                                        *)
(***************************************************************************)
\* rail ids: multiples of -32 (remainder 0), remainders -1 and -2, rail 0
NegRailIds == {0 - 64, 0 - 32, 0 - 2, 0 - 1, 0}

InitRailNeg ==
  /\ InitBase
  /\ soc = tegra124_pmc_soc
  /\ callers = {1}
  /\ node = "none"
  /\ faults = MaxFaults
  /\ doms = {}
  /\ status = {}
  /\ mcCtrl = {}
  /\ mcStat = {}
  /\ glitch = 0
  /\ rail = [RailReset EXCEPT !.req["IO_DPD_REQ"] =
                                ReqWord(OtherRails, IO_DPD_REQ_CODE_IDLE)]

StartRailNeg(t) ==
  \E id \in NegRailIds, op \in {"rail_on", "rail_off"} :
    /\ BeginRail(t, op, id)
    /\ UNCHANGED <<faults, cfgVars, regVars, pmcHw, mcHw, extHw, locks,
                   disturbed>>

NextRailNeg ==
  \/ \E t \in Threads : StartRailNeg(t)
  \/ \E t \in Threads : tegra_io_rail_power(t)
  \/ HwDpd
  \/ Tick

SpecRailNeg == InitRailNeg /\ [][NextRailNeg]_vars

(***************************************************************************)
(* SpecRailPair: two callers power I/O rails on and off at the same time,  *)
(* each its own rail; pclk runs at 408 MHz, the pads follow the requests,  *)
(* and time passes.                                                        *)
(***************************************************************************)
\* the rail of each caller: rail 0 of the first bank, rail 1 of the second
PairRail == <<0, 33>>

InitRailPair ==
  /\ InitBase
  /\ soc = tegra124_pmc_soc
  /\ callers = Threads
  /\ node = "none"
  /\ faults = 0
  /\ doms = {}
  /\ status = {}
  /\ mcCtrl = {}
  /\ mcStat = {}
  /\ glitch = 0
  /\ rail = RailReset

StartRailPair(t) ==
  \E op \in {"rail_on", "rail_off"} :
    /\ BeginRail(t, op, PairRail[t])
    /\ UNCHANGED <<faults, cfgVars, regVars, pmcHw, mcHw, extHw, locks,
                   disturbed>>

NextRailPair ==
  \/ \E t \in Threads : StartRailPair(t)
  \/ \E t \in Threads : tegra_io_rail_power(t)
  \/ HwDpd
  \/ Tick

SpecRailPair == InitRailPair /\ [][NextRailPair]_vars

(***************************************************************************)
(* SpecPair: on Tegra124 two callers each make one call, a power-on or a   *)
(* power-off, each on a domain of its own with one clock, one reset and    *)
(* one memory client group; the two domains share none of them.  The PMC   *)
(* completes a toggle or not, the memory controller acknowledges, and time *)
(* passes.                                                                 *)
(***************************************************************************)
PairDom == <<"dis", "mpe">>

\* the hot-reset control bits of the client groups of domain d
BitsOf(d) == {tegra_mc_hotreset_of(g) : g \in Range(Descr[d].swgroup)}

InitPair ==
  /\ InitCommon
  /\ soc = tegra124_pmc_soc
  /\ callers = Threads
  /\ node = "none"
  /\ faults = 0
  /\ doms = Range(PairDom)
  /\ status \in SUBSET {Descr[d].id : d \in doms}
  /\ mcCtrl = UNION {BitsOf(d) : d \in {e \in doms : Descr[e].id \notin status}}
  /\ mcStat = mcCtrl
  /\ glitch = 0

StartPairCall(t) ==
  \E op \in {"power_on", "power_off"} :
    /\ pc[t] = "idle"
    /\ Begin(t, op, PairDom[t], FALSE, NoHotreset,
             IF op = "power_on" THEN "pon" ELSE "poff")
    /\ UNCHANGED <<faults, cfgVars, regVars, pmcHw, mcHw, extHw, locks,
                   disturbed>>

NextPair ==
  \/ \E t \in Threads : StartPairCall(t)
  \/ \E t \in Threads : PowerOnSupply(t)
  \/ \E t \in Threads : PowerOnLegacy(t)
  \/ \E t \in Threads : PowerOnClocks(t)
  \/ \E t \in Threads : PowerOnClamp(t)
  \/ \E t \in Threads : PowerOnDeassert(t)
  \/ \E t \in Threads : PowerOnFlushDone(t)
  \/ \E t \in Threads : PowerOnDisable(t)
  \/ \E t \in Threads : PowerOnRet(t)
  \/ \E t \in Threads : tegra_pmc_powergate_power_off(t)
  \/ \E t \in Threads : RemoveClamping(t)
  \/ \E t \in Threads : EnableClocks(t)
  \/ \E t \in Threads : DisableClocks(t)
  \/ \E t \in Threads : ResetLoop(t)
  \/ \E t \in Threads : McFlushLoop(t)
  \/ \E t \in Threads : McFlushErr(t)
  \/ \E t \in Threads : McStep(t)
  \/ \E t \in Threads : tegra_pmc_powergate_set(t)
  \/ HwToggle
  \/ Tick
  \/ HwMcAck

SpecPair == InitPair /\ [][NextPair]_vars

(***************************************************************************)
(* Claims on the power-gate primitive (SpecSet).                           *)
(***************************************************************************)
PgDone(t) == t \in callers /\ pc[t] = "done" /\ loc[t].op = "pgset"

\* the call that just returned repeats the previous call (same partition,
\* same target), the previous call succeeded, and nothing changed the
\* status register between its last status read and this call's status read
PgRepeat(t) ==
  /\ PgDone(t)
  /\ prev.op = "pgset"
  /\ prev.dom = loc[t].dom
  /\ prev.new_state = loc[t].new_state
  /\ prev.err = 0
  /\ ~loc[t].dist0

ToggleWrites(t) == Len(SelectSeq(log[t], LAMBDA e : e.ev = "toggle"))

\* C1 as stated: two consecutive calls with the same target, the first
\* successful and undisturbed, write PWRGATE_TOGGLE exactly once in total,
\* and a call that finds the status bit equal to the target writes nothing
\* and returns success.
C1_AsStated ==
  \A t \in Threads :
    /\ PgRepeat(t) => prev.wr + loc[t].wr = 1
    /\ (PgDone(t) /\ loc[t].st0 = loc[t].new_state)
         => (loc[t].wr = 0 /\ loc[t].err = 0)

\* C1 amended: the two calls write PWRGATE_TOGGLE exactly once in total
\* when the first call found the partition in the other state and not at
\* all when it found it in the target state already; the second call never
\* writes and returns success; a call that finds the status bit equal to
\* the target writes nothing and returns success.
C1_Idempotent ==
  \A t \in Threads :
    /\ PgRepeat(t) =>
         /\ loc[t].wr = 0
         /\ ToggleWrites(t) = 0
         /\ loc[t].err = 0
         /\ prev.wr + loc[t].wr = (IF prev.st0 = prev.new_state THEN 0 ELSE 1)
    /\ (PgDone(t) /\ loc[t].st0 = loc[t].new_state)
         => (loc[t].wr = 0 /\ ToggleWrites(t) = 0 /\ loc[t].err = 0)

\* a repeated call after a first call that toggled the partition
C1_Witness ==
  \E t \in Threads : PgRepeat(t) /\ prev.wr = 1 /\ loc[t].wr = 0

\* C4: a call during which the status bit never had the desired value
\* returns -ETIMEDOUT; a call that returns -ETIMEDOUT wrote PWRGATE_TOGGLE
\* exactly once and no longer holds the lock.
C4_Timeout ==
  \A t \in Threads :
    PgDone(t) =>
      /\ ~loc[t].reached => loc[t].err = -ETIMEDOUT
      /\ loc[t].err = -ETIMEDOUT =>
           /\ loc[t].wr = 1
           /\ ToggleWrites(t) = 1
           /\ pmcLock = NoOwner
      /\ loc[t].err \in {0, -ETIMEDOUT}

\* a call returned -ETIMEDOUT and the bit never converged
C4_Witness ==
  \E t \in Threads :
    PgDone(t) /\ ~loc[t].reached /\ loc[t].err = -ETIMEDOUT /\ loc[t].wr = 1

(***************************************************************************)
(* Claims on the hot-reset flush (SpecFlush, SpecFlushFair).               *)
(***************************************************************************)
\* flush was called with a controller and a descriptor and is past its
\* polling loop
FlushLeft(t) ==
  /\ t \in callers
  /\ loc[t].op = "flush"
  /\ loc[t].mc
  /\ loc[t].hot # NoHotreset
  /\ pc[t] \in {"fl_unlock", "done"}

\* C9: flush leaves its polling loop (and returns success) only after at
\* least five consecutive reads of the status register returned the same
\* value and that value has the group's bit set; in particular when the
\* first reads each returned a different value.
C9_StableReads ==
  \A t \in Threads :
    FlushLeft(t) =>
      /\ loc[t].run >= StableReads
      /\ loc[t].hot \in loc[t].last
      /\ pc[t] = "done" => loc[t].err = 0

\* flush returned success although each of its first four reads of the
\* status register differed from the read before
C9_Witness ==
  \E t \in Threads :
    FlushLeft(t) /\ pc[t] = "done" /\ loc[t].err = 0 /\ loc[t].alt = MaxAlt

\* flush is between taking and releasing the memory-controller lock
FlushBusy(t) ==
  /\ loc[t].op = "flush"
  /\ pc[t] \in {"fl_ctrl_read", "fl_ctrl_write", "fl_ctrl_back", "fl_delay",
                "st_first", "st_next", "fl_while", "fl_unlock"}

C10_Safe ==
  \A t \in Threads :
    /\ FlushBusy(t) => mcLock = t
    /\ FlushLeft(t) => (loc[t].stable /\ loc[t].hot \in loc[t].val)
    /\ (FlushLeft(t) /\ pc[t] = "done") => loc[t].err = 0

\* C10: under fair scheduling, once the status register holds for good a
\* value with the group's bit set, a flush in progress returns success with
\* the lock released and the group's control bit set; flush holds the lock
\* for as long as it polls, leaves the loop only after a stable read with
\* the bit set, and has no other way out (no timeout error).
C10_Unbounded ==
  /\ \A t \in Threads :
       (FlushBusy(t) /\ glitch = 0 /\ loc[t].hot \in mcStat)
         ~> (/\ pc[t] = "done"
             /\ loc[t].op = "flush"
             /\ loc[t].err = 0
             /\ mcLock = NoOwner
             /\ loc[t].hot \in mcCtrl)
  /\ []C10_Safe

\* a flush that had to wait for the status register to settle returned
C10_Witness ==
  \E t \in Threads :
    /\ FlushLeft(t)
    /\ pc[t] = "done"
    /\ glitch = 0
    /\ loc[t].alt > 1
    /\ mcLock = NoOwner
    /\ loc[t].hot \in mcCtrl

(***************************************************************************)
(* Claims on the power-on and power-off sequences (Spec).                  *)
(***************************************************************************)
OnDone(t) == pc[t] = "done" /\ loc[t].op = "power_on"
OffDone(t) == pc[t] = "done" /\ loc[t].op = "power_off"

\* the call's log has the successful step e on a
Did(t, e, a) ==
  \E n \in DOMAIN log[t] :
    log[t][n].ev = e /\ log[t][n].a = a /\ log[t][n].rc = 0

\* the call's log has a step of one of the kinds es, successful or not
Tried(t, es) == \E n \in DOMAIN log[t] : log[t][n].ev \in es

\* the always-on exclusion set as the claim lists it
ExclusionSet ==
  {TEGRA_POWERGATE_CPU, TEGRA_POWERGATE_CPU0, TEGRA_POWERGATE_CPU1,
   TEGRA_POWERGATE_CPU2, TEGRA_POWERGATE_CPU3, TEGRA_POWERGATE_C0NC,
   TEGRA_POWERGATE_IRAM}

\* C3: a power-off of a domain on the always-on list (CPU, CPU0-CPU3,
\* C0NC, IRAM) leaves tegra_pmc_powergate_power_off in its first step with
\* -EINVAL, on every chip variant and whatever the status bit, and that
\* step changes no clock, no reset line, no regulator, no hot-reset
\* control bit and no PMC register, and records no step in the log.
C3_AlwaysOnRefused ==
  [][\A t \in Threads :
       (pc[t] = "poff" /\ Dom(t).id \in ExclusionSet /\ pc'[t] # pc[t])
         => /\ pc'[t] = Head(stk[t])
            /\ loc'[t].err = -EINVAL
            /\ UNCHANGED <<status, toggle, clkCnt, rstLine, regCnt, vdd,
                           mcCtrl, mcLock, pmcLock, log>>]_vars

C3_Witness ==
  \E t \in Threads :
    /\ OffDone(t)
    /\ loc[t].dom = "iram"
    /\ soc = tegra124_pmc_soc
    /\ TEGRA_POWERGATE_IRAM \in status
    /\ loc[t].err = -EINVAL
    /\ log[t] = <<>>

\* position of a step in the power-on sequence
OnStage(e) ==
  CASE e.ev \in {"get_regulator", "reg_enable", "toggle", "powergate_set"}
         -> 1
    [] e.ev = "reset_assert" -> 3
    [] e.ev = "clk_enable" -> 4
    [] e.ev = "clamp" -> 5
    [] e.ev = "reset_deassert" -> 6
    [] e.ev = "flush_done" -> 7
    [] e.ev = "clk_disable" -> 8
    [] OTHER -> 0

\* C5: a power-on that returns 0 has done, in this order and each with
\* success: (1) the regulator enable (external-rail domain) or the
\* power-gate switch-on, (3) on legacy variants the assert of every reset,
\* (4) the enable of every clock, (5) the clamp removal, (6) the de-assert
\* of every reset, (7) the flush-done of every client group, (8) the
\* disable of every clock; steps 3 happen on legacy variants only, and
\* steps 4 and 8 for every domain but PCIE, whose clocks the sequence does
\* not touch.
C5_PowerOnOrder ==
  \A t \in Threads :
    (OnDone(t) /\ loc[t].err = 0) =>
      LET L == log[t]
          d == Dom(t)
      IN /\ \A m, n \in DOMAIN L : m < n => OnStage(L[m]) <= OnStage(L[n])
         /\ \A n \in DOMAIN L : OnStage(L[n]) > 0 /\ L[n].rc = 0
         /\ IF d.is_vdd THEN Did(t, "reg_enable", loc[t].dom)
                        ELSE Did(t, "powergate_set", TRUE)
         /\ \A r \in Range(d.reset) :
              /\ Did(t, "reset_assert", r) <=> soc.is_legacy_powergate
              /\ Did(t, "reset_deassert", r)
         /\ \A c \in Range(d.clk) :
              /\ Did(t, "clk_enable", c) <=> d.id # TEGRA_POWERGATE_PCIE
              /\ Did(t, "clk_disable", c) <=> d.id # TEGRA_POWERGATE_PCIE
         /\ Did(t, "clamp", ClampWrite(soc, d.id))
         /\ \A g \in Range(d.swgroup) :
              Did(t, "flush_done", tegra114_mc_hotreset(g))

C5_Witness ==
  \E t \in Threads :
    /\ OnDone(t)
    /\ loc[t].err = 0
    /\ loc[t].dom = "venc"
    /\ soc = tegra30_pmc_soc
    /\ Did(t, "toggle", TEGRA_POWERGATE_VENC)
    /\ Len(log[t]) = 13

\* position of a step in the power-off sequence
OffStage(e) ==
  CASE e.ev = "clk_enable" -> 1
    [] e.ev \in {"flush", "flushed"} -> 2
    [] e.ev = "reset_assert" -> 3
    [] e.ev = "clk_disable" -> 4
    [] e.ev \in {"reg_disable", "toggle", "powergate_set"} -> 5
    [] OTHER -> 0

PowerRemoval == {"toggle", "reg_disable", "powergate_set"}

\* C6: a power-off on a non-legacy variant that returns 0 has done, in this
\* order and each with success: the enable of every clock, the completed
\* flush of every client group, the assert of every reset, the disable of
\* every clock, and last the regulator disable or the power-gate
\* switch-off.  A power-off in which a flush or a reset assert failed has
\* not reached the power removal: no toggle write, no regulator disable.
C6_PowerOffOrder ==
  \A t \in Threads :
    OffDone(t) =>
      LET L == log[t]
          d == Dom(t)
      IN /\ (loc[t].err = 0 /\ ~soc.is_legacy_powergate) =>
              /\ \A m, n \in DOMAIN L :
                   m < n => OffStage(L[m]) <= OffStage(L[n])
              /\ \A n \in DOMAIN L : OffStage(L[n]) > 0 /\ L[n].rc = 0
              /\ \A c \in Range(d.clk) :
                   Did(t, "clk_enable", c) /\ Did(t, "clk_disable", c)
              /\ \A g \in Range(d.swgroup) :
                   /\ Did(t, "flush", tegra114_mc_hotreset(g))
                   /\ Did(t, "flushed", tegra114_mc_hotreset(g))
              /\ \A r \in Range(d.reset) : Did(t, "reset_assert", r)
              /\ \/ Did(t, "reg_disable", loc[t].dom)
                 \/ Did(t, "powergate_set", FALSE)
              /\ L[Len(L)].ev \in PowerRemoval
         /\ (\E n \in DOMAIN L : /\ L[n].ev \in {"flush", "reset_assert"}
                                 /\ L[n].rc # 0)
              => ~Tried(t, PowerRemoval)

C6_Witness ==
  \E t \in Threads :
    /\ OffDone(t)
    /\ loc[t].err = 0
    /\ loc[t].dom = "venc"
    /\ soc = tegra114_pmc_soc
    /\ Did(t, "toggle", TEGRA_POWERGATE_VENC)
    /\ Did(t, "flushed", tegra114_mc_hotreset("ISP"))

\* a step after the failed step f that belongs to the failed step itself:
\* tegra_pmc_powergate_enable_clocks disables the clocks it had enabled
OwnUnwind(L, f, n) ==
  /\ L[f].ev = "clk_enable"
  /\ L[n].ev = "clk_disable"
  /\ \E m \in 1 .. (f - 1) : L[m].ev = "clk_enable" /\ L[m].a = L[n].a

\* C7: a power-on or power-off that returns an error has exactly one failed
\* step, every step before it succeeded, the error returned is the failed
\* step's, and after it the log has nothing (no later step, no second try,
\* no undoing of earlier steps) but the failed clock-enable step's own
\* disabling of the clocks it had enabled; a call that returns 0 has no
\* failed step.
C7_FirstFailureAborts ==
  \A t \in Threads :
    (OnDone(t) \/ OffDone(t)) =>
      LET L == log[t]
      IN IF loc[t].err = 0
         THEN \A n \in DOMAIN L : L[n].rc = 0
         ELSE \/ /\ L = <<>>
                 /\ OffDone(t)
                 /\ AlwaysOn(Dom(t).id)
                 /\ loc[t].err = -EINVAL
              \/ \E f \in DOMAIN L :
                   /\ L[f].rc = loc[t].err
                   /\ \A n \in DOMAIN L :
                        /\ n < f => L[n].rc = 0
                        /\ n > f => OwnUnwind(L, f, n)

\* a power-on that failed at a reset de-assert: the clocks stay enabled
C7_Witness ==
  \E t \in Threads :
    /\ OnDone(t)
    /\ loc[t].dom = "venc"
    /\ loc[t].err = ExtErr.reset
    /\ Did(t, "clamp", ClampWrite(soc, TEGRA_POWERGATE_VENC))
    /\ clkCnt["venc_c0"] = 1
    /\ clkCnt["venc_c1"] = 1

\* C8 as stated: the calls on an external-rail domain (power-on, power-off,
\* registration) never write PWRGATE_TOGGLE, and the calls on any other
\* domain never enable or disable a regulator.
C8_AsStated ==
  \A t \in Threads :
    loc[t].op \in {"power_on", "power_off", "register"} =>
      IF Dom(t).is_vdd
      THEN ~Tried(t, {"toggle"})
      ELSE ~Tried(t, {"reg_enable", "reg_disable"})

\* C2 as stated: the query that follows a successful power-on of the same
\* domain answers true, the one that follows a successful power-off
\* answers false, for every registered domain whose id the chip variant
\* has, with no change of the status register since the caller last read
\* it.
C2_AsStated ==
  \A t \in Threads :
    (/\ pc[t] \in {"done", "crashed"}
     /\ loc[t].op = "is_powered"
     /\ prev.op \in {"power_on", "power_off"}
     /\ prev.dom = loc[t].dom
     /\ ValidId(soc, Dom(t).id)
     /\ pc[t] = "done" => ~loc[t].dist0)
      => /\ pc[t] = "done"
         /\ loc[t].res = Bool(prev.op = "power_on")

\* C2 for the domains without the external-rail flag: the statement above
\* holds of them.
C2_PowerGated ==
  \A t \in Threads :
    (/\ pc[t] \in {"done", "crashed"}
     /\ loc[t].op = "is_powered"
     /\ prev.op \in {"power_on", "power_off"}
     /\ prev.dom = loc[t].dom
     /\ ValidId(soc, Dom(t).id)
     /\ ~Dom(t).is_vdd
     /\ pc[t] = "done" => ~loc[t].dist0)
      => /\ pc[t] = "done"
         /\ loc[t].res = Bool(prev.op = "power_on")

(***************************************************************************)
(* Claims on the hot-reset register accesses and on the two locks          *)
(* (SpecFlush, SpecConc).                                                  *)
(***************************************************************************)
Moves(t) == pc'[t] # pc[t]

\* C11: flush-done writes the control register once, with exactly the
\* group's bit cleared and every other bit as it was, then reads the control
\* register back once and returns success with the lock released, without
\* ever reading the status register; flush writes the control register with
\* exactly the group's bit set and every other bit as it was.
C11_CtrlFrame ==
  [][\A t \in Threads :
       /\ (pc[t] = "fd_ctrl_write" /\ Moves(t))
            => /\ mcCtrl' = mcCtrl \ {loc[t].hot}
               /\ pc'[t] = "fd_ctrl_back"
       /\ (pc[t] = "fd_ctrl_back" /\ Moves(t))
            => /\ pc'[t] = "fd_unlock"
               /\ mcCtrl' = mcCtrl
       /\ (pc[t] = "fd_unlock" /\ Moves(t))
            => /\ pc'[t] = "done"
               /\ loc'[t].err = 0
               /\ loc'[t].run = 0
               /\ mcLock = t
               /\ mcLock' = NoOwner
               /\ mcCtrl' = mcCtrl
       /\ (pc[t] = "fl_ctrl_write" /\ Moves(t))
            => mcCtrl' = mcCtrl \cup {loc[t].hot}
       /\ (loc[t].op = "flush_done" /\ loc'[t].op = "flush_done")
            => loc'[t].run = 0]_vars

\* a flush-done has returned and left the bit of another group set
C11_Witness ==
  \E t \in Threads :
    /\ pc[t] = "done"
    /\ loc[t].op = "flush_done"
    /\ loc[t].err = 0
    /\ loc[t].hot # NoHotreset
    /\ log[t] = <<Ev("flush_done", loc[t].hot, 0)>>
    /\ mcCtrl # {}
    /\ loc[t].hot \notin mcCtrl

\* C12: a flush or flush-done called without a controller or without a
\* hot-reset descriptor returns -EINVAL at once: the lock is not taken and
\* no memory-controller register is read or written.
C12_InvalidArgument ==
  [][\A t \in Threads :
       (/\ loc[t].op \in {"flush", "flush_done"}
        /\ (~loc[t].mc \/ loc[t].hot = NoHotreset)
        /\ Moves(t)
        /\ pc[t] # "done")
         => /\ pc[t] \in {"flush", "flush_done"}
            /\ pc'[t] = "done"
            /\ loc'[t].err = -EINVAL
            /\ loc'[t].run = 0
            /\ loc'[t].val = loc[t].val
            /\ mcLock' = mcLock
            /\ mcCtrl' = mcCtrl
            /\ mcStat' = mcStat]_vars

\* a flush called without a controller, with a valid descriptor, returned
C12_Witness ==
  \E t \in Threads :
    /\ pc[t] = "done"
    /\ loc[t].op = "flush"
    /\ ~loc[t].mc
    /\ loc[t].hot # NoHotreset
    /\ loc[t].err = -EINVAL
    /\ mcLock = NoOwner

\* between mutex_lock(&mc->lock) and mutex_unlock(&mc->lock)
InMc(t) == pc[t] \in {"fl_ctrl_read", "fd_ctrl_read", "fl_ctrl_write",
                      "fd_ctrl_write", "fl_ctrl_back", "fd_ctrl_back",
                      "fl_delay", "st_first", "st_next", "fl_while",
                      "fl_unlock", "fd_unlock"}

\* C13: at most one caller is inside a power-gate sequence (from the status
\* read to the end of polling), at most one is inside a flush or flush-done
\* sequence, and a write of the control register changes no bit but the
\* writer's: no caller's bit is lost.
C13_MutualExclusion ==
  /\ [](\A t, u \in Threads :
          t # u => /\ ~(InPgSet(t) /\ InPgSet(u))
                   /\ ~(InMc(t) /\ InMc(u)))
  /\ [][\A t \in Threads :
          (pc[t] \in {"fl_ctrl_write", "fd_ctrl_write"} /\ Moves(t))
            => mcCtrl' \ {loc[t].hot} = mcCtrl \ {loc[t].hot}]_vars

\* a caller is about to write the control register, which holds the bit of
\* the other caller's group, while the other caller waits for the lock
C13_Witness ==
  \E t, u \in Threads :
    /\ t # u
    /\ pc[t] \in {"fl_ctrl_write", "fd_ctrl_write"}
    /\ pc[u] \in {"fl_lock", "fd_lock"}
    /\ loc[u].hot # loc[t].hot
    /\ loc[u].hot \in mcCtrl

\* the next step of the caller reads or writes a PMC register on behalf of
\* a power-domain or I/O rail operation
PmcAccess(t) ==
  \/ pc[t] \in {"pgset_read", "pgset_write", "pgset_poll"}
  \/ pc[t] = "clamp" /\ ValidId(soc, Dom(t).id)
  \/ pc[t] = "ispw" /\ ~Dom(t).is_vdd
  \/ pc[t] = "ispw_id" /\ ValidId(soc, Dom(t).id)
  \/ pc[t] \in {"rail_sample", "rail_tim", "rail_req_read", "rail_req_write",
                 "rail_poll", "rail_unprep"}

\* the next step of the caller reads or writes a hot-reset register
McAccess(t) == pc[t] \in {"fl_ctrl_read", "fd_ctrl_read", "fl_ctrl_write",
                          "fd_ctrl_write", "fl_ctrl_back", "fd_ctrl_back",
                          "st_first", "st_next"}

\* C14: every PMC register access of the power-domain and I/O rail
\* operations (status reads, toggle writes, clamp writes, deep-power-down
\* sample, timing and request writes) is made by a caller holding the PMC
\* lock, and every hot-reset register access by a caller holding the
\* memory-controller lock.
C14_AsStated ==
  \A t \in Threads :
    /\ PmcAccess(t) => pmcLock = t
    /\ McAccess(t) => mcLock = t

\* the part of C14 that the code keeps: the accesses of the power-gate
\* primitive and of the hot-reset protocol are made under their locks
C14_PrimitiveLocked ==
  \A t \in Threads :
    /\ pc[t] \in {"pgset_read", "pgset_write", "pgset_poll"} => pmcLock = t
    /\ McAccess(t) => mcLock = t

(***************************************************************************)
(* Claims on the I/O rail operations (SpecRail).                           *)
(***************************************************************************)
RailOp(t) == loc[t].op \in {"rail_on", "rail_off"}

\* the register writes of the current call, in order
RailWrites(t) ==
  SelectSeq(log[t], LAMBDA e : e.ev \in {"DPD_SAMPLE", "SEL_DPD_TIM",
                                         "IO_DPD_REQ", "IO_DPD2_REQ"})

\* C15: a rail operation called with id 30, 31, 62, 63 or an id of 64 or
\* more returns -EINVAL, and no PMC register has been written when it
\* returns.
C15_RailIdRejected ==
  /\ [](\A t \in Threads :
          (RailOp(t) /\ (loc[t].id \in {30, 31, 62, 63} \/ loc[t].id >= 64))
            => /\ pc[t] \in {"rail", "done"}
               /\ RailWrites(t) = <<>>
               /\ pc[t] = "done" => loc[t].err = -EINVAL)
  /\ [][\A t \in Threads :
          (/\ RailOp(t)
           /\ pc[t] = "rail"
           /\ (loc[t].id \in {30, 31, 62, 63} \/ loc[t].id >= 64)
           /\ Moves(t))
            => rail' = rail]_vars

\* a call for rail 62 (bit 30 of the second bank) has returned -EINVAL
C15_Witness ==
  \E t \in Threads :
    /\ pc[t] = "done"
    /\ loc[t].op = "rail_off"
    /\ loc[t].id = 62
    /\ loc[t].err = -EINVAL

\* ceil(200 / ceil(10^9 / R)) in unbounded integer arithmetic, for R > 0
CeilTim(R) ==
  LET tick_ns == IF GeqUL(R, ToUL(1000000000)) THEN 1
                 ELSE (1000000000 + FromUL(R) - 1) \div FromUL(R)
  IN (200 + tick_ns - 1) \div tick_ns

\* C16: for every rate R > 0 of the reference clock, the value the prepare
\* step writes to SEL_DPD_TIM is ceil(200 / ceil(10^9 / R)); for
\* R = 408,000,000 it is 67.
C16_AsStated ==
  \A t \in Threads :
    /\ pc[t] # "crashed"
    /\ \A n \in DOMAIN log[t] :
         log[t][n].ev = "SEL_DPD_TIM"
           => /\ log[t][n].a = CeilTim(rail.rate)
              /\ rail.rate = ToUL(408000000) => log[t][n].a = 67

\* the part of C16 that the code keeps: the rates R for which
\* 10^9 + R - 1 fits an unsigned long (R <= 2^32 - 10^9)
C16_WithoutWrap ==
  \A t \in Threads :
    GeqUL(UL(50277, 13824), rail.rate)
      => /\ pc[t] # "crashed"
         /\ \A n \in DOMAIN log[t] :
              log[t][n].ev = "SEL_DPD_TIM"
                => /\ log[t][n].a = CeilTim(rail.rate)
                   /\ rail.rate = ToUL(408000000) => log[t][n].a = 67

\* the writes of the current call to DPD_SAMPLE, in order
SampleWrites(t) == SelectSeq(log[t], LAMBDA e : e.ev = "DPD_SAMPLE")

\* the current call has written a request word
Requested(t) == \E n \in DOMAIN log[t] :
                  log[t][n].ev \in {"IO_DPD_REQ", "IO_DPD2_REQ"}

\* C19: when a rail operation returns success, its last write to DPD_SAMPLE
\* is the disable value; when its poll ends without the status bit having
\* shown the expected value it returns -ETIMEDOUT, and then it has made no
\* disable write: sampling is left enabled.
C19_SamplingCleanup ==
  \A t \in Threads :
    (RailOp(t) /\ pc[t] = "done")
      => /\ loc[t].err = 0
            => /\ SampleWrites(t) # <<>>
               /\ SampleWrites(t)[Len(SampleWrites(t))].a = DPD_SAMPLE_DISABLE
               /\ rail.sample = DPD_SAMPLE_DISABLE
         /\ (Requested(t) /\ ~loc[t].reached) => loc[t].err = -ETIMEDOUT
         /\ loc[t].err = -ETIMEDOUT
              => /\ Requested(t)
                 /\ SampleWrites(t) = <<Ev("DPD_SAMPLE", DPD_SAMPLE_ENABLE, 0)>>
                 /\ rail.sample = DPD_SAMPLE_ENABLE

\* a rail operation has timed out and left sampling enabled
C19_Witness ==
  \E t \in Threads :
    /\ pc[t] = "done"
    /\ loc[t].op = "rail_on"
    /\ loc[t].err = -ETIMEDOUT
    /\ rail.sample = DPD_SAMPLE_ENABLE

\* C20: a rail operation writes back the request word it read with the
\* rail's bit set and the code field replaced, every other rail bit as
\* read; power-on writes the code on which the pad leaves deep power down
\* (IO_DPD_REQ_CODE_OFF) and power-off the code on which it enters it
\* (IO_DPD_REQ_CODE_ON), so a successful call leaves the pad in the state
\* it was called for.
C20_RequestWord ==
  /\ [][\A t \in Threads :
          (pc[t] = "rail_req_write" /\ Moves(t))
            => LET r == IF loc[t].id < 32 THEN "IO_DPD_REQ" ELSE "IO_DPD2_REQ"
               IN /\ loc[t].rval = rail.req[r]
                  /\ rail'.req[r].rails = rail.req[r].rails \cup {loc[t].id % 32}
                  /\ rail'.req[r].code = IF loc[t].op = "rail_on"
                                         THEN IO_DPD_REQ_CODE_OFF
                                         ELSE IO_DPD_REQ_CODE_ON
                  /\ \A o \in DOMAIN rail.req \ {r} :
                       rail'.req[o] = rail.req[o]]_vars
  /\ [](\A t \in Threads :
          (RailOp(t) /\ pc[t] = "done" /\ loc[t].err = 0)
            => LET s == IF loc[t].id < 32 THEN "IO_DPD_STATUS"
                                          ELSE "IO_DPD2_STATUS"
               IN (loc[t].id % 32 \in rail.st[s]) = (loc[t].op = "rail_off"))

\* rail 0 has been powered off: its bit is set in the request word next to
\* the bit of the other rail, with the code that powers the pad down
C20_Witness ==
  \E t \in Threads :
    /\ pc[t] = "done"
    /\ loc[t].op = "rail_off"
    /\ loc[t].id = 0
    /\ loc[t].err = 0
    /\ rail.req["IO_DPD_REQ"] = ReqWord({0} \cup OtherRails, IO_DPD_REQ_CODE_ON)
    /\ 0 \in rail.st["IO_DPD_STATUS"]

(***************************************************************************)
(* Claims on the clamp removal (Spec).                                     *)
(***************************************************************************)
\* the clamp writes of the current call, in order
ClampWrites(t) == SelectSeq(log[t], LAMBDA e : e.ev = "clamp" /\ e.rc = 0)

\* C17: the power-on sequence of the 3D domain writes GPU_RG_CNTRL and
\* not REMOVE_CLAMPING on a chip with GPU clamps, and REMOVE_CLAMPING with
\* mask 1 << id and not GPU_RG_CNTRL on a chip without.
C17_GpuClamp ==
  \A t \in Threads :
    (loc[t].op = "power_on" /\ Dom(t).id = TEGRA_POWERGATE_3D)
      => /\ Len(ClampWrites(t)) <= 1
         /\ (OnDone(t) /\ loc[t].err = 0) => Len(ClampWrites(t)) = 1
         /\ \A n \in DOMAIN ClampWrites(t) :
              ClampWrites(t)[n].a =
                IF soc.has_gpu_clamps
                THEN [reg |-> "GPU_RG_CNTRL", val |-> {}]
                ELSE [reg |-> "REMOVE_CLAMPING",
                      val |-> {TEGRA_POWERGATE_3D}]

\* the 3D domain of a chip with GPU clamps has been powered on
C17_Witness ==
  \E t \in Threads :
    /\ OnDone(t)
    /\ loc[t].err = 0
    /\ Dom(t).id = TEGRA_POWERGATE_3D
    /\ soc.has_gpu_clamps
    /\ ClampWrites(t) =
         <<Ev("clamp", [reg |-> "GPU_RG_CNTRL", val |-> {}], 0)>>

\* C18: remove_clamping for a valid id writes one register: for VDEC the
\* mask 1 << PCIE, for PCIE the mask 1 << VDEC, for every other id (the
\* GPU case of C17 apart) the mask 1 << id, to REMOVE_CLAMPING.
C18_ClampSwap ==
  [][\A t \in Threads :
       (pc[t] = "clamp" /\ Moves(t) /\ Dom(t).id >= 0
        /\ Dom(t).id < soc.num_powergates)
         => LET id == Dom(t).id
                mask == IF id = TEGRA_POWERGATE_VDEC
                        THEN {TEGRA_POWERGATE_PCIE}
                        ELSE IF id = TEGRA_POWERGATE_PCIE
                             THEN {TEGRA_POWERGATE_VDEC}
                             ELSE {id}
            IN /\ Len(log'[t]) = Len(log[t]) + 1
               /\ log'[t][Len(log'[t])].ev = "clamp"
               /\ log'[t][Len(log'[t])].rc = 0
               /\ log'[t][Len(log'[t])].a.reg
                    \in {"REMOVE_CLAMPING", "GPU_RG_CNTRL"}
               /\ ~(id = TEGRA_POWERGATE_3D /\ soc.has_gpu_clamps)
                    => log'[t][Len(log'[t])].a =
                         [reg |-> "REMOVE_CLAMPING", val |-> mask]
               /\ loc'[t].err = 0]_vars

\* the clamps of VDEC have been removed through the bit of PCIE
C18_Witness ==
  \E t \in Threads :
    /\ loc[t].op = "power_on"
    /\ Dom(t).id = TEGRA_POWERGATE_VDEC
    /\ ClampWrites(t) =
         <<Ev("clamp", [reg |-> "REMOVE_CLAMPING",
                        val |-> {TEGRA_POWERGATE_PCIE}], 0)>>

(***************************************************************************)
(* Claims on the bounded polls (SpecPollFair).                             *)
(***************************************************************************)
InPgPoll(t) == pc[t] \in {"pgset_cond", "pgset_poll"}
InRailPoll(t) == pc[t] \in {"rail_cond", "rail_poll"}
PgPollEnded(t) ==
  pc[t] = "pgset_unlock" /\ loc[t].err \in {0, -ETIMEDOUT}
RailPollEnded(t) ==
  pc[t] = "rail_polled" /\ loc[t].err \in {0, -ETIMEDOUT}

\* C21: with jiffies advancing, the caller's poll in tegra_pmc_powergate_set
\* and its poll in tegra_io_rail_poll each end, whatever the hardware does,
\* with 0 or -ETIMEDOUT; once the time is up the loop condition ends the
\* loop without another read.
C21_PollsEnd ==
  /\ (\E t \in callers : InPgPoll(t)) ~> (\E t \in callers : PgPollEnded(t))
  /\ (\E t \in callers : InRailPoll(t))
       ~> (\E t \in callers : RailPollEnded(t))
  /\ [][\A t \in Threads :
          /\ (pc[t] = "pgset_cond" /\ loc[t].left = 0 /\ Moves(t))
               => pc'[t] = "pgset_unlock"
          /\ (pc[t] = "rail_cond" /\ loc[t].left = 0 /\ Moves(t))
               => pc'[t] = "rail_polled"]_vars

\* an I/O rail call has timed out after a power-gate call that timed out,
\* the hardware having answered neither
C21_Witness ==
  \E t \in Threads :
    /\ pc[t] = "done"
    /\ loc[t].op \in {"rail_on", "rail_off"}
    /\ loc[t].err = -ETIMEDOUT
    /\ prev.op = "pgset"
    /\ prev.err = -ETIMEDOUT
    /\ toggle # NoCmd

(***************************************************************************)
(* Claims on the CPU hotplug functions (SpecCpu).                          *)
(***************************************************************************)
CpuDone(t) == pc[t] = "done" /\ loc[t].op \in {"cpu_ispw", "cpu_on",
                                               "cpu_clamp"}

\* what a call with an index of the table has done to partition p, and what
\* a call with an index outside the table has done
CpuTranslated(t, p) ==
  CASE loc[t].op = "cpu_ispw" ->
         \E r \in {0, 1} : /\ log[t] = <<Ev("is_powered", p, r)>>
                           /\ loc[t].res = Bool(r = 1)
    [] loc[t].op = "cpu_on" ->
         /\ loc[t].err = 0
         /\ \/ log[t] = <<Ev("powergate_set", p, 0)>>
            \/ log[t] = <<Ev("toggle", p, 0), Ev("powergate_set", p, 0)>>
    [] loc[t].op = "cpu_clamp" ->
         /\ loc[t].err = 0
         /\ log[t] = <<Ev("clamp", ClampWrite(soc, p), 0)>>

CpuRefused(t) ==
  /\ log[t] = <<>>
  /\ IF loc[t].op = "cpu_ispw" THEN loc[t].res = "false"
                               ELSE loc[t].err = -EINVAL

\* C22 as stated: a call with an index in 0 .. num_cpu_powergates - 1, index
\* 0 included, acts on partition cpu_powergates[index]; a call with any
\* other index answers false or -EINVAL and touches no register.
C22_AsStated ==
  \A t \in Threads :
    CpuDone(t) =>
      IF loc[t].id >= 0 /\ loc[t].id < num_cpu_powergates(soc)
      THEN CpuTranslated(t, cpu_powergates(soc)[loc[t].id + 1])
      ELSE CpuRefused(t)

\* C22 for the indices the code accepts: the statement holds with the range
\* 1 .. num_cpu_powergates - 1, index 0 being refused like an index outside
\* the table.
C22_FromOne ==
  \A t \in Threads :
    CpuDone(t) =>
      IF loc[t].id >= 1 /\ loc[t].id < num_cpu_powergates(soc)
      THEN CpuTranslated(t, cpu_powergates(soc)[loc[t].id + 1])
      ELSE CpuRefused(t)

(***************************************************************************)
(* Claims on the clock bundle and on the branches of the two sequences     *)
(* (Spec).                                                                 *)
(***************************************************************************)
\* a top-level call that runs the power-on or the power-off sequence
SeqDone(t) ==
  pc[t] = "done" /\ loc[t].op \in {"power_on", "power_off"}

\* the step x is a step of kind e made on a with result rc
Is(x, e, a, rc) == x.ev = e /\ x.a = a /\ x.rc = rc

\* the steps of kind e of the call, in the order they were made
StepsOf(t, e) == SelectSeq(log[t], LAMBDA x : x.ev = e)

\* C26: the clocks are enabled in registration order; when the enable of
\* the k-th clock fails, the rest of the call is the disable of clocks
\* k - 1 down to 1 in that order, no later clock is touched, the call
\* returns the error of the failed enable, and every clock of the bundle has
\* the enable count it had before the call.
C26_EnableUnwind ==
  \A t \in Threads :
    SeqDone(t) =>
      LET L == log[t]
          clk == Dom(t).clk
          E == StepsOf(t, "clk_enable")
      IN /\ Len(E) <= Len(clk)
         /\ \A j \in DOMAIN E :
              /\ E[j].a = clk[j]
              /\ j < Len(E) => E[j].rc = 0
         /\ \A f \in DOMAIN L :
              (L[f].ev = "clk_enable" /\ L[f].rc # 0) =>
                LET k == Len(E)
                IN /\ SubSeq(L, f + 1, Len(L)) =
                        [j \in 1 .. (k - 1) |->
                           Ev("clk_disable", clk[k - j], 0)]
                   /\ loc[t].err = L[f].rc
                   /\ \A c \in Range(clk) : clkCnt[c] = loc[t].cnt0[c]

\* a power-off whose third clock enable failed: the second clock was
\* disabled, then the first
C26_Witness ==
  \E t \in Threads :
    /\ OffDone(t)
    /\ loc[t].dom = "vdec"
    /\ loc[t].err = ExtErr.clk
    /\ log[t] = <<Ev("clk_enable", "vdec_c0", 0),
                  Ev("clk_enable", "vdec_c1", 0),
                  Ev("clk_enable", "vdec_c2", ExtErr.clk),
                  Ev("clk_disable", "vdec_c1", 0),
                  Ev("clk_disable", "vdec_c0", 0)>>
    /\ clkCnt["vdec_c0"] = 0
    /\ clkCnt["vdec_c1"] = 0

\* the sequence of n clocks in the reverse of registration order
Reverse(clk) == [j \in 1 .. Len(clk) |-> clk[Len(clk) + 1 - j]]

\* C27 as stated: a power-on or power-off that returns 0 and has enabled the
\* clocks of the bundle has disabled them, at the end of the sequence, last
\* registered clock first.
C27_AsStated ==
  \A t \in Threads :
    (/\ pc[t] = "done"
     /\ loc[t].op \in {"power_on", "power_off"}
     /\ loc[t].err = 0
     /\ Tried(t, {"clk_enable"}))
      => [j \in DOMAIN StepsOf(t, "clk_disable") |->
            StepsOf(t, "clk_disable")[j].a] = Reverse(Dom(t).clk)

\* C27 as the code has it: the clocks are disabled in registration order,
\* first registered clock first.
C27_RegistrationOrder ==
  \A t \in Threads :
    (/\ pc[t] = "done"
     /\ loc[t].op \in {"power_on", "power_off"}
     /\ loc[t].err = 0
     /\ Tried(t, {"clk_enable"}))
      => [j \in DOMAIN StepsOf(t, "clk_disable") |->
            StepsOf(t, "clk_disable")[j].a] = Dom(t).clk

PowerSupply == {"powergate_set", "reg_enable"}

\* C28: on a legacy variant a power-on asserts every reset after the power
\* is supplied and before any clock is enabled or clamp removed, and a
\* power-off consists of reset asserts followed by the power removal, with
\* no clock enable, no clock disable and no flush; on a non-legacy variant
\* a power-on asserts no reset.
C28_LegacyBranches ==
  \A t \in Threads :
    LET L == log[t]
    IN /\ (loc[t].op = "power_on" /\ ~soc.is_legacy_powergate)
            => ~Tried(t, {"reset_assert"})
       /\ (loc[t].op = "power_on" /\ soc.is_legacy_powergate) =>
            /\ \A n \in DOMAIN L :
                 L[n].ev = "reset_assert" =>
                   \E m \in 1 .. (n - 1) :
                     L[m].ev \in PowerSupply /\ L[m].rc = 0
            /\ \A n \in DOMAIN L :
                 L[n].ev \in {"clk_enable", "clamp", "reset_deassert"} =>
                   \A r \in Range(Dom(t).reset) :
                     \E m \in 1 .. (n - 1) : Is(L[m], "reset_assert", r, 0)
            /\ (pc[t] = "done" /\ loc[t].err = 0) =>
                 \A r \in Range(Dom(t).reset) : Did(t, "reset_assert", r)
       /\ (loc[t].op = "power_off" /\ soc.is_legacy_powergate) =>
            /\ \A n \in DOMAIN L :
                 L[n].ev \in {"reset_assert"} \cup PowerRemoval
            /\ \A m, n \in DOMAIN L :
                 (L[m].ev \in PowerRemoval /\ L[n].ev = "reset_assert")
                   => n < m
            /\ (pc[t] = "done" /\ loc[t].err = 0) =>
                 \A r \in Range(Dom(t).reset) : Did(t, "reset_assert", r)

\* a legacy power-off of a domain with two resets has returned 0 after a
\* power-on of the same domain
C28_Witness ==
  \E t \in Threads :
    /\ OffDone(t)
    /\ loc[t].err = 0
    /\ loc[t].dom = "venc"
    /\ soc = tegra20_pmc_soc
    /\ prev.op = "power_on"
    /\ Len(log[t]) = 4
    /\ Is(log[t][1], "reset_assert", "venc_r0", 0)
    /\ Is(log[t][2], "reset_assert", "venc_r1", 0)
    /\ log[t][3].ev = "toggle"
    /\ log[t][4].ev = "powergate_set"

\* C29: a power-on of the PCIE domain enables no clock and disables no
\* clock, and when it returns 0 it has made every other step of the
\* sequence; a power-on of any other domain that returns 0 has enabled and
\* later disabled every clock of the bundle.
C29_PcieClocks ==
  \A t \in Threads :
    loc[t].op = "power_on" =>
      LET L == log[t]
          d == Dom(t)
      IN IF d.id = TEGRA_POWERGATE_PCIE
         THEN /\ ~Tried(t, {"clk_enable", "clk_disable"})
              /\ \A c \in Range(d.clk) : clkCnt[c] = loc[t].cnt0[c]
              /\ (pc[t] = "done" /\ loc[t].err = 0) =>
                   /\ Did(t, "powergate_set", TRUE)
                   /\ \A r \in Range(d.reset) :
                        /\ Did(t, "reset_assert", r)
                             <=> soc.is_legacy_powergate
                        /\ Did(t, "reset_deassert", r)
                   /\ Did(t, "clamp", ClampWrite(soc, d.id))
                   /\ \A g \in Range(d.swgroup) :
                        Did(t, "flush_done", tegra114_mc_hotreset(g))
         ELSE (pc[t] = "done" /\ loc[t].err = 0) =>
                \A c \in Range(d.clk) :
                  \E m, n \in DOMAIN L :
                    /\ m < n
                    /\ Is(L[m], "clk_enable", c, 0)
                    /\ Is(L[n], "clk_disable", c, 0)

\* a power-on of PCIE has returned 0 on a non-legacy variant
C29_Witness ==
  \E t \in Threads :
    /\ OnDone(t)
    /\ loc[t].err = 0
    /\ loc[t].dom = "pcie"
    /\ soc = tegra124_pmc_soc
    /\ Len(log[t]) = 4
    /\ log[t][1].ev = "toggle"
    /\ log[t][2].ev = "powergate_set"
    /\ log[t][3].ev = "clamp"
    /\ Is(log[t][4], "reset_deassert", "pcie_r0", 0)

(***************************************************************************)
(* Claims on tegra_powergate_init and tegra_powergate_of_xlate (SpecInit). *)
(***************************************************************************)
InitDone(t) == pc[t] = "done" /\ loc[t].op = "init"

LookupDone(t) == pc[t] = "done" /\ loc[t].op = "lookup"

\* the listed domains that have a name and the id asked for
NamedWithId(id) ==
  {d \in Range(pd.list) \cap pd.named : Descr[d].id = id}

\* C23: a look-up through the provider answers with a listed, named domain
\* whose id is the id asked for whenever there is one, and with -ENOENT
\* otherwise (so never with a domain of another id), and the step changes
\* neither the list nor the names, links, framework states or regulators.
C23_Lookup ==
  /\ [](\A t \in Threads :
          LookupDone(t) =>
            IF NamedWithId(loc[t].id) # {}
            THEN loc[t].res \in NamedWithId(loc[t].id)
            ELSE loc[t].res = NotFound)
  /\ [][\A t \in Threads :
          (pc[t] = "xlate" /\ Moves(t))
            => UNCHANGED <<pd, doms, genpd, vdd, regCnt, status, toggle>>]_vars

\* the second domain of the list is found
C23_Witness ==
  \E t \in Threads :
    /\ LookupDone(t)
    /\ pd.list = <<"venc", "heg">>
    /\ loc[t].id = TEGRA_POWERGATE_HEG
    /\ loc[t].res = "heg"

\* a listed domain without a name is passed over
C23_UnnamedPassed ==
  \E t \in Threads :
    /\ LookupDone(t)
    /\ pd.list = <<"venc", "heg">>
    /\ "heg" \notin pd.named
    /\ loc[t].id = TEGRA_POWERGATE_HEG
    /\ loc[t].res = NotFound

\* the domain whose clocks, resets or client groups could not be looked up
\* during the call of t, if any
LookupFailedFor(t) ==
  {log[t][k].a : k \in {j \in DOMAIN log[t] : log[t][j].ev \in DOMAIN OfGetErr}}

\* the regulator of d could not be found during the call of t
RegulatorMissing(t, d) ==
  \E k \in DOMAIN log[t] :
    /\ log[t][k].ev = "get_regulator"
    /\ log[t][k].a = d
    /\ log[t][k].rc # 0

\* the names of the first n nodes, in order
RECURSIVE FirstNames(_, _)
FirstNames(nodes, n) ==
  IF n = 0 THEN <<>>
  ELSE Append(FirstNames(nodes, n - 1), nodes[n].name)

\* a property of a node could not be read, or its descriptor not allocated
NodeUnread(t) == \E k \in DOMAIN log[t] : log[t][k].ev = "node"

\* C24 as stated: when an initialisation in which every node was read is
\* over, every node of the tree other than one whose clocks, resets or
\* client groups could not be looked up is on the list, and so is a node
\* whose regulator could not be found.
C24_AsStated ==
  \A t \in Threads :
    (InitDone(t) /\ ~NodeUnread(t)) =>
      \A d \in NodeNames(pd.nodes) :
        \/ d \in LookupFailedFor(t)
        \/ d \in Range(pd.list)

\* what the code does: a failed look-up ends the initialisation with the
\* error of the look-up, with only the nodes before the failing one on the
\* list, no link and no provider; a regulator that could not be found
\* does not keep its node off the list
C24_AbortsAll ==
  \A t \in Threads :
    InitDone(t) =>
      /\ \A d \in LookupFailedFor(t) :
           /\ loc[t].err \in Range(OfGetErr)
           /\ \E n \in DOMAIN pd.nodes :
                /\ pd.nodes[n].name = d
                /\ pd.list = FirstNames(pd.nodes, n - 1)
           /\ pd.links = {}
           /\ ~pd.provider
      /\ \A d \in NodeNames(pd.nodes) :
           (RegulatorMissing(t, d) /\ LookupFailedFor(t) = {})
             => d \in Range(pd.list)

\* the look-up of the first node fails and the second node, whose look-ups
\* were never tried, is not registered
C24_LaterNodeLost ==
  \E t \in Threads :
    /\ InitDone(t)
    /\ pd.nodes[1].name \in LookupFailedFor(t)
    /\ pd.nodes[2].name \notin Range(pd.list)

\* a node whose regulator could not be found is registered
C24_RegulatorWitness ==
  \E t \in Threads :
    /\ InitDone(t)
    /\ RegulatorMissing(t, "gpu")
    /\ "gpu" \in Range(pd.list)
    /\ loc[t].err = 0

\* the nodes that name a dependency
Dependent(nodes) == {k \in DOMAIN nodes : nodes[k].dep # "none"}

\* C25: a link exists only once every node of the tree is on the list, and
\* only from a listed parent to the domain that names it; an
\* initialisation that returns 0 has made the link of every node that
\* names a dependency, whether the parent comes earlier or later in the
\* tree; and when all nodes are listed and one names a node that is not on
\* the list, the initialisation returns an error, makes no link for that
\* node and adds no provider.
C25_TwoPhase ==
  /\ pd.links # {} => Range(pd.list) = NodeNames(pd.nodes)
  /\ \A l \in pd.links :
       /\ l[1] \in Range(pd.list)
       /\ l[2] \in Range(pd.list)
       /\ DependOn(pd.nodes, l[2]) = l[1]
  /\ \A t \in Threads :
       InitDone(t) =>
         /\ loc[t].err = 0 =>
              \A k \in Dependent(pd.nodes) :
                <<pd.nodes[k].dep, pd.nodes[k].name>> \in pd.links
         /\ \A k \in Dependent(pd.nodes) :
              (/\ Range(pd.list) = NodeNames(pd.nodes)
               /\ pd.nodes[k].dep \notin Range(pd.list))
                => /\ loc[t].err < 0
                   /\ ~pd.provider
                   /\ <<pd.nodes[k].dep, pd.nodes[k].name>> \notin pd.links

\* the first node depends on the second: the link is made
C25_Witness ==
  \E t \in Threads :
    /\ InitDone(t)
    /\ loc[t].err = 0
    /\ pd.nodes = <<Node("venc", "heg"), Node("heg", "none")>>
    /\ pd.list = <<"venc", "heg">>
    /\ pd.links = {<<"heg", "venc">>}
    /\ pd.provider

\* the dependency is no power domain of the tree: -EINVAL and no link
C25_UnregisteredRefused ==
  \E t \in Threads :
    /\ InitDone(t)
    /\ loc[t].err = -EINVAL
    /\ pd.list = <<"pcie", "heg">>
    /\ pd.nodes[1].dep = "vdec"
    /\ pd.links = {}
    /\ ~pd.provider

(***************************************************************************)
(* Claims on the state a registration hands to the framework (Spec).       *)
(***************************************************************************)
\* what the hardware says of domain d: the regulator of an external-rail
\* domain is enabled, the status bit of any other domain is set
HwOn(d) ==
  IF Descr[d].is_vdd THEN regCnt[d] > 0 ELSE Descr[d].id \in status

\* the step of a registration that reads the state gives what the hardware
\* says (when exempt is FALSE: of every domain; otherwise: of every domain
\* but an external-rail domain whose regulator pointer is still NULL), the
\* next step hands that answer to the framework, and the registration of
\* an always-on domain never writes PWRGATE_TOGGLE
FromHardware(exempt) ==
  \A t \in Threads :
    loc[t].op = "register" =>
      /\ (pc[t] = "ispw" /\ Moves(t)
          /\ ~(exempt /\ Dom(t).is_vdd /\ vdd[loc[t].dom] = "null"))
           => /\ pc'[t] = "reg_genpd"
              /\ loc'[t].res = Bool(HwOn(loc[t].dom))
      /\ (pc[t] = "reg_genpd" /\ Moves(t))
           => genpd'[loc[t].dom] =
                IF loc[t].res = "true" THEN "on" ELSE "off"
      /\ AlwaysOn(Dom(t).id) => ~Tried(t, {"toggle"})

\* C30 as stated: for every domain, the state handed to the framework at
\* registration is the state read from the hardware at that moment (status
\* bit, or regulator state for an external-rail domain), and the
\* registration of an always-on domain never switches it off.
C30_AsStated == [][FromHardware(FALSE)]_vars

\* the same for every domain but an external-rail domain registered with
\* a NULL regulator pointer
C30_ButNullRegulator == [][FromHardware(TRUE)]_vars

\* the registration of an always-on domain whose status bit is set hands
\* "on" to the framework and leaves the bit set
C30_AlwaysOnWitness ==
  \E t \in Threads :
    /\ pc[t] = "done"
    /\ loc[t].op = "register"
    /\ loc[t].dom = "iram"
    /\ genpd["iram"] = "on"
    /\ TEGRA_POWERGATE_IRAM \in status

\* the registration of an external-rail domain reads through the NULL
\* regulator pointer
C30_NullRegulatorRead ==
  \E t \in Threads :
    /\ pc[t] = "crashed"
    /\ loc[t].op = "register"
    /\ loc[t].dom = "gpu"
    /\ vdd["gpu"] = "null"

(***************************************************************************)
(* Claims on the order of the I/O rail writes (SpecRail).                  *)
(***************************************************************************)
\* the positions in the log of t of the writes of value v to register r
WritesOf(t, r, v) ==
  {k \in DOMAIN log[t] : log[t][k].ev = r /\ log[t][k].a = v}

\* the positions of the writes to SEL_DPD_TIM and to the request registers
TimWrites(t) == {k \in DOMAIN log[t] : log[t][k].ev = "SEL_DPD_TIM"}
ReqWrites(t) ==
  {k \in DOMAIN log[t] : log[t][k].ev \in {"IO_DPD_REQ", "IO_DPD2_REQ"}}

\* every position of A has a position of B before it
Preceded(A, B) == \A k \in A : \E j \in B : j < k

\* C31 as stated: in a rail call, SEL_DPD_TIM has been written before
\* sampling is enabled in DPD_SAMPLE, and both have been written before the
\* request register is.
C31_AsStated ==
  \A t \in Threads :
    RailOp(t) =>
      /\ Preceded(WritesOf(t, "DPD_SAMPLE", DPD_SAMPLE_ENABLE), TimWrites(t))
      /\ Preceded(ReqWrites(t), TimWrites(t))
      /\ Preceded(ReqWrites(t), WritesOf(t, "DPD_SAMPLE", DPD_SAMPLE_ENABLE))

\* what the code does: sampling is enabled first, then SEL_DPD_TIM is
\* written, then the request register
C31_SampleFirst ==
  \A t \in Threads :
    RailOp(t) =>
      /\ Preceded(TimWrites(t), WritesOf(t, "DPD_SAMPLE", DPD_SAMPLE_ENABLE))
      /\ Preceded(ReqWrites(t), TimWrites(t))
      /\ Preceded(ReqWrites(t), WritesOf(t, "DPD_SAMPLE", DPD_SAMPLE_ENABLE))

(***************************************************************************)
(* Claims on the id test of the exported functions (SpecId).               *)
(***************************************************************************)
\* id is negative or not below the partition count, or no chip variant is
\* chosen yet
OutOfRange(id) == soc = NoSoc \/ id < 0 \/ id >= soc.num_powergates

\* a call of the exported function with an id argument has returned
IdCallDone(t) == pc[t] = "done" /\ loc[t].op \in {"ispw_id", "clamp"}

\* C32: tegra_powergate_is_powered(id) and
\* tegra_powergate_remove_clamping(id) with an id that is negative or not
\* below the partition count, or with no chip variant chosen, return
\* -EINVAL in one step that changes no register and records no write (the
\* answer of is_powered does not depend on the status register); and the
\* power-on of a domain with such an id does not succeed: when it comes to
\* the clamp removal it returns -EINVAL from it, with no reset de-asserted
\* and no client released.
C32_IdRefused ==
  /\ [][\A t \in Threads :
          (pc[t] \in {"ispw_id", "clamp"} /\ Moves(t) /\ OutOfRange(ArgId(t)))
            => /\ pc'[t] = Head(stk[t])
               /\ loc'[t].err = -EINVAL
               /\ pc[t] = "ispw_id" => loc'[t].res = "einval"
               /\ pc[t] = "clamp" =>
                    log'[t] = Append(log[t], Ev("clamp", NoWrite, -EINVAL))
               /\ UNCHANGED <<pmcHw, mcHw, extHw, locks, regVars>>]_vars
  /\ [](\A t \in Threads :
          (OnDone(t) /\ OutOfRange(Dom(t).id)) =>
            /\ loc[t].err # 0
            /\ ~Tried(t, {"reset_deassert", "flush_done"})
            /\ Tried(t, {"clamp"}) => loc[t].err = -EINVAL)

\* remove_clamping(25) on Tegra124, which has 25 partitions
C32_Witness ==
  \E t \in Threads :
    /\ IdCallDone(t)
    /\ loc[t].op = "clamp"
    /\ loc[t].id = 25
    /\ soc = tegra124_pmc_soc
    /\ loc[t].err = -EINVAL

\* is_powered(-1), and is_powered(6) before a chip variant is chosen
C32_NegativeOrEarly ==
  \E t \in Threads :
    /\ IdCallDone(t)
    /\ loc[t].op = "ispw_id"
    /\ \/ loc[t].id = -1 /\ soc = tegra20_pmc_soc
       \/ loc[t].id = 6 /\ soc = NoSoc /\ 6 \in status
    /\ loc[t].res = "einval"

\* the power-on of HEG (id 7) on Tegra20 (7 partitions) fails at the clamp
\* removal
C32_PowerOnFails ==
  \E t \in Threads :
    /\ OnDone(t)
    /\ loc[t].dom = "heg"
    /\ soc = tegra20_pmc_soc
    /\ loc[t].err = -EINVAL
    /\ log[t][Len(log[t])].ev = "clamp"

(***************************************************************************)
(* Claims on the two power-gate primitives under contention (SpecGate).    *)
(***************************************************************************)
\* a power-gate, CPU power-on, flush or flush-done call of t has returned
GateCallDone(t) ==
  /\ pc[t] = "done"
  /\ loc[t].op \in {"pgset", "cpu_on", "flush", "flush_done"}

\* C33: a caller whose power-gate, flush or flush-done call has returned,
\* with 0, -ETIMEDOUT or -EINVAL, holds neither powergates_lock nor the
\* lock of the memory controller, and a lock passes from its holder only
\* by a step of that holder, and to a caller only by a step of that caller
\* when nobody holds it.
C33_LockDiscipline ==
  /\ [](\A t \in Threads :
          (pc[t] \in {"idle", "done"}) => (pmcLock # t /\ mcLock # t))
  /\ [][\A t \in Threads :
          /\ (pmcLock = t /\ pmcLock' # t) => (Moves(t) /\ pmcLock' = NoOwner)
          /\ (mcLock = t /\ mcLock' # t) => (Moves(t) /\ mcLock' = NoOwner)
          /\ (pmcLock # t /\ pmcLock' = t) => (Moves(t) /\ pmcLock = NoOwner)
          /\ (mcLock # t /\ mcLock' = t) => (Moves(t) /\ mcLock = NoOwner)]_vars

\* a power-gate call has timed out and returned, and the other caller has
\* taken the lock since
C33_Witness ==
  \E t, u \in Threads :
    /\ GateCallDone(t)
    /\ loc[t].op = "pgset"
    /\ loc[t].err = -ETIMEDOUT
    /\ pmcLock = u
    /\ u # t

\* a CPU power-on has written the toggle register and returned 0, and the
\* other caller has taken the lock since
C33_CpuOnReturned ==
  \E t, u \in Threads :
    /\ GateCallDone(t)
    /\ loc[t].op = "cpu_on"
    /\ loc[t].err = 0
    /\ Tried(t, {"toggle"})
    /\ pmcLock = u
    /\ u # t

\* a flush without a hot-reset descriptor was refused while the other
\* caller holds the lock of the memory controller
C33_FlushRefused ==
  \E t, u \in Threads :
    /\ GateCallDone(t)
    /\ loc[t].op = "flush"
    /\ loc[t].err = -EINVAL
    /\ mcLock = u
    /\ u # t

(***************************************************************************)
(* Claims on concurrent CPU power-on calls (SpecCpuPair).                  *)
(***************************************************************************)
\* the number of writes of PWRGATE_TOGGLE in the call of t
ToggleCount(t) == Len(SelectSeq(log[t], LAMBDA e : e.ev = "toggle"))

\* the calls of both callers, for the same CPU, have returned and the PMC
\* has completed every command
PairSettled(t, u) ==
  /\ t # u
  /\ pc[t] = "done"
  /\ pc[u] = "done"
  /\ loc[t].id = loc[u].id
  /\ toggle = NoCmd

\* C36 as stated: no caller writes a toggle command for a partition while
\* a toggle command for that partition is pending, and two power-on calls
\* for the same CPU write the toggle register at most once in total and
\* leave the partition powered on.
C36_AsStated ==
  /\ [][\A t \in Threads :
          (pc[t] = "pgs_write" /\ Moves(t)) => toggle # CpuId(t)]_vars
  /\ [](\A t, u \in Threads :
          PairSettled(t, u) =>
            /\ ToggleCount(t) + ToggleCount(u) <= 1
            /\ CpuId(t) \in status)

\* the second caller read the status before the PMC completed the command
\* of the first, and wrote the command again afterwards: the partition is
\* off when both calls have returned 0
C36_EndsOff ==
  \E t, u \in Threads :
    /\ PairSettled(t, u)
    /\ loc[t].err = 0
    /\ loc[u].err = 0
    /\ ToggleCount(t) = 1
    /\ ToggleCount(u) = 1
    /\ CpuId(t) \notin status

\* what the lock gives: the status read and the toggle write of one call
\* are not interleaved with those of the other
C36_WritesSerialised ==
  \A t, u \in Threads :
    (t # u /\ pc[t] \in {"pgs_read", "pgs_write"})
      => pc[u] \notin {"pgs_read", "pgs_write"}

(***************************************************************************)
(* Claims on the balance of the clock enable counts (Spec).                *)
(***************************************************************************)
\* the number of steps of kind e made on a with result 0 in the call of t
Times(t, e, a) ==
  Len(SelectSeq(log[t], LAMBDA x : x.ev = e /\ x.a = a /\ x.rc = 0))

\* every clock of the bundle has the enable count it had before the call
ClocksBalanced(t) ==
  \A c \in Range(Dom(t).clk) : clkCnt[c] = loc[t].cnt0[c]

\* C34: after a power-on or a power-off that returns 0, every clock of the
\* bundle has the enable count it had before the call, and the call has
\* disabled each clock as many times as it has enabled it, at most once;
\* on the legacy and the non-legacy variants and for the PCIE domain.
C34_BalancedOnSuccess ==
  \A t \in Threads :
    (SeqDone(t) /\ loc[t].err = 0) =>
      /\ ClocksBalanced(t)
      /\ \A c \in Range(Dom(t).clk) :
           /\ Times(t, "clk_enable", c) = Times(t, "clk_disable", c)
           /\ Times(t, "clk_enable", c) <= 1

\* a power-off on a non-legacy variant that enabled and disabled the three
\* clocks of the bundle and returned 0
C34_Witness ==
  \E t \in Threads :
    /\ OffDone(t)
    /\ loc[t].err = 0
    /\ ~soc.is_legacy_powergate
    /\ loc[t].dom = "vdec"
    /\ \A c \in Range(Dom(t).clk) : Times(t, "clk_enable", c) = 1
    /\ ClocksBalanced(t)

\* a power-on on a legacy variant that enabled and disabled the clocks and
\* returned 0
C34_LegacyOn ==
  \E t \in Threads :
    /\ OnDone(t)
    /\ loc[t].err = 0
    /\ soc.is_legacy_powergate
    /\ Dom(t).clk # <<>>
    /\ \A c \in Range(Dom(t).clk) : Times(t, "clk_disable", c) = 1
    /\ ClocksBalanced(t)

\* a power-on of the PCIE domain that returned 0 while its clock was
\* enabled by another user
C34_Pcie ==
  \E t \in Threads :
    /\ OnDone(t)
    /\ loc[t].err = 0
    /\ Dom(t).id = TEGRA_POWERGATE_PCIE
    /\ Dom(t).clk # <<>>
    /\ ClocksBalanced(t)

\* the power-on or power-off of t returned an error from a step that comes
\* after the clocks were enabled
FailedAfterEnable(t) ==
  /\ SeqDone(t)
  /\ loc[t].err # 0
  /\ log[t] # <<>>
  /\ log[t][Len(log[t])].ev \in {"clamp", "reset_deassert", "flush_done",
                                 "flush", "reset_assert", "powergate_set",
                                 "reg_disable"}
  /\ \E c \in Range(Dom(t).clk) : Times(t, "clk_enable", c) > 0

\* C35 as stated: a power-on or power-off that returns an error from a step
\* after the clock-enable step leaves every clock of the bundle with the
\* enable count it had before the call.
C35_AsStated ==
  \A t \in Threads : FailedAfterEnable(t) => ClocksBalanced(t)

\* a power-off on a non-legacy variant left through the flush failure with
\* the three clocks of the bundle still enabled
C35_LeftEnabled ==
  \E t \in Threads :
    /\ FailedAfterEnable(t)
    /\ loc[t].op = "power_off"
    /\ log[t][Len(log[t])].ev = "flush"
    /\ \A c \in Range(Dom(t).clk) : clkCnt[c] = loc[t].cnt0[c] + 1

\* the failures that do keep the balance: the power removal of a power-off
\* fails after the clocks were disabled
C35_RemovalBalanced ==
  \A t \in Threads :
    (FailedAfterEnable(t)
       /\ log[t][Len(log[t])].ev \in {"powergate_set", "reg_disable"}
       /\ loc[t].op = "power_off"
       /\ ~soc.is_legacy_powergate)
      => ClocksBalanced(t)

\* a power-off on a non-legacy variant whose power removal timed out after
\* the clocks were disabled
C35_RemovalTimedOut ==
  \E t \in Threads :
    /\ FailedAfterEnable(t)
    /\ loc[t].op = "power_off"
    /\ ~soc.is_legacy_powergate
    /\ log[t][Len(log[t])].ev = "powergate_set"
    /\ loc[t].err = -ETIMEDOUT
    /\ ClocksBalanced(t)

(***************************************************************************)
(* Claims on the hot-reset control bits of a domain's client groups        *)
(* (SpecHot).                                                              *)
(***************************************************************************)
\* the hot-reset descriptors of the client groups of the domain of t, in
\* registration order
GroupBits(t) ==
  [j \in DOMAIN Dom(t).swgroup |-> tegra_mc_hotreset_of(Dom(t).swgroup[j])]

\* the flush and flush-done calls of the call of t, in the order made
FlushCalls(t) ==
  SelectSeq(log[t], LAMBDA x : x.ev \in {"flush", "flush_done"})

\* C37: after a power-off that returns 0 on a non-legacy variant the
\* hot-reset control bit of every client group of the domain is set; after a
\* power-on that returns 0 it is clear for every client group; the groups
\* are flushed and released in registration order and a failure on one
\* group ends the walk, the later groups untouched; a control bit is set
\* only by the flush of a power-off and cleared only by the flush-done of a
\* power-on whose power-gate step has reported the domain powered, so the
\* bits stay set while the domain is off.
C37_HotResetFollows ==
  /\ [](\A t \in Threads :
          /\ (OffDone(t) /\ loc[t].err = 0 /\ ~soc.is_legacy_powergate) =>
               \A b \in Range(GroupBits(t)) : b \in mcCtrl
          /\ (OnDone(t) /\ loc[t].err = 0) =>
               \A b \in Range(GroupBits(t)) : b \notin mcCtrl
          /\ loc[t].op \in {"power_on", "power_off"} =>
               LET F == FlushCalls(t)
                   G == GroupBits(t)
               IN /\ Len(F) <= Len(G)
                  /\ \A j \in DOMAIN F :
                       /\ F[j].a = G[j]
                       /\ F[j].ev = IF loc[t].op = "power_on"
                                    THEN "flush_done" ELSE "flush"
                       /\ F[j].rc # 0 =>
                            /\ j = Len(F)
                            /\ SeqDone(t) => loc[t].err = F[j].rc)
  /\ [][mcCtrl' # mcCtrl =>
          \E t \in Threads :
            /\ Moves(t)
            /\ \E b \in Range(GroupBits(t)) :
                 \/ /\ mcCtrl' = mcCtrl \cup {b}
                    /\ loc[t].op = "power_off"
                 \/ /\ mcCtrl' = mcCtrl \ {b}
                    /\ loc[t].op = "power_on"
                    /\ Did(t, "powergate_set", TRUE)]_vars

\* a power-off on Tegra124 flushed VI and then ISP and returned 0 with both
\* control bits set
C37_Witness ==
  \E t \in Threads :
    /\ OffDone(t)
    /\ loc[t].err = 0
    /\ soc = tegra124_pmc_soc
    /\ loc[t].dom = "venc"
    /\ Len(FlushCalls(t)) = 2
    /\ FlushCalls(t)[1].a = 17
    /\ FlushCalls(t)[2].a = 8
    /\ {8, 17} \subseteq mcCtrl

\* a power-on released VI and then ISP and returned 0 with both control
\* bits clear, after a power-off had set them
C37_Released ==
  \E t \in Threads :
    /\ OnDone(t)
    /\ loc[t].err = 0
    /\ prev.op = "power_off"
    /\ ~soc.is_legacy_powergate
    /\ loc[t].dom = "venc"
    /\ Len(FlushCalls(t)) = 2
    /\ mcCtrl = {}

\* the flush of the first group failed: the second group was not flushed
C37_LaterUntouched ==
  \E t \in Threads :
    /\ OffDone(t)
    /\ loc[t].dom = "heg"
    /\ loc[t].err = -EINVAL
    /\ Len(FlushCalls(t)) = 1
    /\ FlushCalls(t)[1].rc = -EINVAL
    /\ mcCtrl = {}

(***************************************************************************)
(* Claims on negative I/O rail ids (SpecRailNeg).                          *)
(***************************************************************************)
\* the call of t is past the validation of tegra_io_rail_prepare
RailValidated(t) ==
  /\ RailOp(t)
  /\ pc[t] \notin {"idle", "rail"}
  /\ ~(pc[t] = "done" /\ RailWrites(t) = <<>> /\ loc[t].err = -EINVAL)

\* C38 as stated: a rail call with a negative id writes no PMC register and
\* returns an error; every id that passes the validation lies in 0..63 and
\* its bit position in 0..29, and the mask of the call is that single bit.
C38_AsStated ==
  \A t \in Threads :
    /\ (RailOp(t) /\ loc[t].id < 0) =>
         /\ RailWrites(t) = <<>>
         /\ pc[t] = "done" => loc[t].err < 0
    /\ RailValidated(t) =>
         /\ loc[t].id \in 0 .. 63
         /\ GeqUL(ToUL(29), RailBit(loc[t].id))
    /\ (RailOp(t) /\ Requested(t)) =>
         \E b \in 0 .. 29 : loc[t].mask = BIT(b)

\* tegra_io_rail_power_off(-32) returned 0 after it put rail 0 of the first
\* bank in deep power down
C38_ActsOnRailZero ==
  \E t \in Threads :
    /\ pc[t] = "done"
    /\ loc[t].op = "rail_off"
    /\ loc[t].id = 0 - 32
    /\ loc[t].err = 0
    /\ loc[t].mask = BIT(0)
    /\ 0 \in rail.req["IO_DPD_REQ"].rails
    /\ 0 \in rail.st["IO_DPD_STATUS"]

\* tegra_io_rail_power_on(-1) enabled sampling and wrote the timing, and
\* stopped at the shift by 2^32 - 1
C38_ShiftUndefined ==
  \E t \in Threads :
    /\ pc[t] = "crashed"
    /\ loc[t].id = 0 - 1
    /\ RailBit(loc[t].id) = UL(Half - 1, Half - 1)
    /\ Len(RailWrites(t)) = 2

\* tegra_io_rail_power_on(-2) went on with an empty mask or with bit 30 as
\* the mask: it wrote a request word that names no new rail
C38_EmptyRequest ==
  \E t \in Threads :
    /\ pc[t] = "done"
    /\ loc[t].id = 0 - 2
    /\ loc[t].op = "rail_on"
    /\ loc[t].err = 0
    /\ loc[t].mask \in {{}, BIT(30)}
    /\ rail.req["IO_DPD_REQ"] = ReqWord(OtherRails, IO_DPD_REQ_CODE_OFF)

\* what holds: an id of 0..63 that passes the validation has a bit position
\* in 0..29 and the call's mask is that bit
C38_NonNegative ==
  \A t \in Threads :
    (RailValidated(t) /\ loc[t].id >= 0) =>
      /\ loc[t].id \in 0 .. 63
      /\ GeqUL(ToUL(29), RailBit(loc[t].id))
      /\ Requested(t) => loc[t].mask = BIT(FromUL(RailBit(loc[t].id)))

(***************************************************************************)
(* Claims on concurrent I/O rail operations (SpecRailPair).                *)
(***************************************************************************)
\* the call of t has written its request and its poll has not ended
RailPolling(t) == RailOp(t) /\ pc[t] \in {"rail_cond", "rail_poll"}

\* C40 as stated: with two rail operations on different rails, sampling is
\* enabled whenever one of them is between its request write and the end
\* of its poll; no completion of the other disables it meanwhile.
C40_AsStated ==
  /\ [](\A t \in Threads :
          RailPolling(t) => rail.sample = DPD_SAMPLE_ENABLE)
  /\ [][\A t, u \in Threads :
          (t # u /\ pc[t] = "rail_unprep" /\ Moves(t)) => ~RailPolling(u)]_vars

\* the power-on of rail 0 returned 0 and disabled sampling while the
\* power-off of rail 33 was still polling
C40_DisabledUnderPoll ==
  \E t, u \in Threads :
    /\ t # u
    /\ pc[t] = "done"
    /\ RailOp(t)
    /\ loc[t].err = 0
    /\ RailPolling(u)
    /\ loc[u].id # loc[t].id
    /\ rail.sample = DPD_SAMPLE_DISABLE

\* what holds: sampling is disabled only by the unprepare step of a call
\* whose own poll has succeeded
C40_OwnPollEnded ==
  [][rail'.sample # rail.sample /\ rail'.sample = DPD_SAMPLE_DISABLE =>
       \E t \in Threads :
         /\ Moves(t)
         /\ pc[t] = "rail_unprep"
         /\ loc[t].reached]_vars

(***************************************************************************)
(* Claims on concurrent calls on different domains (SpecPair).             *)
(***************************************************************************)
\* what a power-on or power-off of domain d, made alone from a state where
\* the control bits of d are set exactly when d is off, returns and leaves:
\* 0 with the domain on and its control bits clear (power-on) or with the
\* domain off and its control bits set (power-off); or the time-out of the
\* power gate, the control bits set (kept by the power-on, set by the flush
\* of the power-off) and the status bit as the PMC leaves it
SerialOutcome(op, d, err, st, ctrl) ==
  \/ /\ op = "power_on"
     /\ err = 0
     /\ Descr[d].id \in st
     /\ BitsOf(d) \cap ctrl = {}
  \/ /\ op = "power_off"
     /\ err = 0
     /\ Descr[d].id \notin st
     /\ BitsOf(d) \subseteq ctrl
  \/ /\ err = -ETIMEDOUT
     /\ BitsOf(d) \subseteq ctrl

\* the state of domain d: its status bit, its control bits, its clocks and
\* its reset lines
DomState(d) ==
  <<Descr[d].id \in status, BitsOf(d) \cap mcCtrl,
    [c \in Range(Descr[d].clk) |-> clkCnt[c]],
    [r \in Range(Descr[d].reset) |-> rstLine[r]]>>

\* both calls have returned and the PMC has no command left
PairDone == pc[1] = "done" /\ pc[2] = "done" /\ toggle = NoCmd

\* C39: with a power-on or power-off of one domain running concurrently
\* with a power-on or power-off of another, no step of a call changes the
\* status bit, the control bits, the clocks or the resets of the other
\* call's domain, and when both have returned each call has the result and
\* has left its domain's status bit and control bits as a call made alone
\* does, hence as in a serial execution of the two.
C39_Serialisable ==
  /\ [](PairDone =>
          \A t \in Threads :
            SerialOutcome(loc[t].op, loc[t].dom, loc[t].err, status, mcCtrl))
  /\ [][\A t, u \in Threads :
          (t # u /\ Moves(t)) => DomState(PairDom[u])' = DomState(PairDom[u])]_vars

\* caller 1 powered its domain on and caller 2 powered its domain off, both
\* wrote the toggle register, both flush calls ran on the one control
\* register, and both returned 0
C39_Witness ==
  /\ PairDone
  /\ loc[1].op = "power_on"
  /\ loc[2].op = "power_off"
  /\ loc[1].err = 0
  /\ loc[2].err = 0
  /\ Did(1, "powergate_set", TRUE)
  /\ Did(2, "powergate_set", FALSE)
  /\ Tried(1, {"flush_done"})
  /\ Tried(2, {"flush"})
  /\ status = {Descr[PairDom[1]].id}
  /\ mcCtrl = BitsOf(PairDom[2])

\* one call timed out while the other succeeded
C39_OneTimedOut ==
  /\ PairDone
  /\ loc[1].err = -ETIMEDOUT
  /\ loc[2].err = 0
  /\ loc[2].op = "power_on"
  /\ Did(2, "powergate_set", TRUE)

\* the two calls were inside their sequences at the same time, one in the
\* power-gate primitive and the other in a flush
C39_Overlap ==
  \E t, u \in Threads :
    /\ t # u
    /\ pmcLock = t
    /\ mcLock = u

=============================================================================
